---- MODULE Spec2Model ----
(***************************************************************************)
(* Model of the agent bridge of packages/modal-infra/src/sandbox/bridge.py *)
(*                                                                         *)
(* Three specifications share this module:                                 *)
(*   Spec      one prompt session: AgentBridge._handle_prompt driving      *)
(*             _stream_opencode_response_sse and                           *)
(*             _fetch_final_message_state on an open link;                 *)
(*   IdSpec    OpenCodeIdentifier.ascending under a sequence of clock      *)
(*             readings;                                                   *)
(*   LinkSpec  AgentBridge.run / _connect_and_run / _handle_command with   *)
(*             prompt tasks, their cancellation and _send_event.           *)
(***************************************************************************)
EXTENDS Integers, Sequences, FiniteSets, TLC

VARIABLES
    \* ---- prompt session (Spec) ----
    pc,                         \* position of _handle_prompt
    message_id,                 \* control-plane messageId of the command
    opencode_session_id,        \* self.opencode_session_id
    opencode_message_id,        \* generated user-message id of the prompt
    cumulative_text,            \* dict part_id -> text
    emitted_tool_states,        \* set of "tool:<callID>:<status>" keys
    allowed_assistant_msg_ids,  \* set of admitted assistant message ids
    pending_parts,              \* dict msg id -> list of (part, delta)
    pending_parts_total,
    pending_drop_logged,
    warnings,                   \* number of bridge.pending_parts_dropped log lines
    stop_requests,              \* POSTs of /session/<id>/stop
    nEvents,                    \* SSE events received so far in this prompt
    termination,                \* how the prompt ended ("" while running)
    ws,                         \* self.ws: "none", "open", "closed"
    sent,                       \* events written to the link, in order
    \* history of the prompt session, used only by the properties
    sentMeta,                   \* per entry of sent: its origin
    admittedAt,                 \* msg id -> index of the admitting SSE event
    admittedBy,                 \* msg id -> info of the events that admitted it (history)
    last,                       \* summary of the last translated SSE event
    http,                       \* requests of the prompt to the agent server
    \* ---- OpenCodeIdentifier (IdSpec) ----
    now_ms,                     \* int(time.time() * 1000), in base-4096 digits
    last_timestamp,             \* OpenCodeIdentifier._last_timestamp
    counter,                    \* OpenCodeIdentifier._counter
    generated,                  \* the ids returned so far, in order
    ticks,                      \* advances of the clock so far
    \* ---- link (LinkSpec) ----
    run_pc,                     \* position of run(): connect, serve, sleep, exit
    shutdown_event,             \* self.shutdown_event.is_set()
    git_sync_complete,          \* self.git_sync_complete.is_set()
    reconnect_attempts,
    connects,                   \* connection attempts made so far
    commands,                   \* messages read from the link so far
    tasks,                      \* prompt tasks: task number -> state
    background_tasks,           \* in-flight set of the current connection
    heartbeat_task,             \* "none", "running"
    heartbeats,                 \* heartbeat events attempted so far
    sessions_created,           \* POST /session calls that returned
    connect_outcome,            \* how the last websockets.connect ended (history)
    \* ---- the deadlines of one prompt (TimerSpec), times in seconds ----
    t_pc,                       \* connect, post, read, check, fetch, done
    clock,                      \* loop.time(), 0 when the prompt starts
    deadline,                   \* when the asyncio.timeout_at context expires
    prompt_start,               \* loop.time() taken before the prompt POST
    sse_inactivity_timeout,     \* self.sse_inactivity_timeout (the window)
    last_chunk,                 \* when the last chunk was read (-1: none yet)
    max_gap,                    \* largest time between two chunks read (history)
    expired_in,                 \* where the deadline expired (history)
    t_outcome,                  \* how the prompt ended ("" while running)
    \* ---- SandboxSupervisor.monitor_processes (SupSpec) ----
    monitor_pc,                 \* position of monitor_processes
    opencode_process,           \* "running", "exited"
    bridge_process,             \* "running", "exited_0", "exited_1"
    restart_count,
    bridge_restart_count,
    sup_shutdown_event,         \* SandboxSupervisor.shutdown_event.is_set()
    delays,                     \* per child: the delays slept before restarts (history)
    starts,                     \* per child: restarts made (history)
    fatal,                      \* messages given to _report_fatal_error
    opencode_ready,             \* self.opencode_ready.is_set()
    start_mode,                 \* RESTORED_FROM_SNAPSHOT, FROM_REPO_IMAGE == "true"
    image_build_mode,           \* IMAGE_BUILD_MODE == "true"
    bridge_configured,          \* control plane URL and session id are set
    done,                       \* startup steps of run() finished (history)
    healthy,                    \* agent starts the health check took for healthy (history)
    \* ---- one call of a function of the bridge (PushSpec, ...) ----
    call_pc,                    \* "idle", "called", "returned"
    call_args,                  \* the arguments, and the environment the call reads
    call_result                 \* what the call returned, sent or left behind

psVars == <<pc, message_id, opencode_message_id,
            cumulative_text, emitted_tool_states, allowed_assistant_msg_ids,
            pending_parts, pending_parts_total, pending_drop_logged, warnings,
            nEvents, termination, admittedAt, admittedBy, last, http>>

\* state both the prompt session and the link use
sharedVars == <<opencode_session_id, stop_requests, ws, sent, sentMeta>>

idVars == <<now_ms, last_timestamp, counter, generated, ticks>>

linkVars == <<run_pc, shutdown_event, git_sync_complete, reconnect_attempts,
              connects, commands, tasks, background_tasks, heartbeat_task,
              heartbeats, sessions_created, connect_outcome>>

timerVars == <<t_pc, clock, deadline, prompt_start, sse_inactivity_timeout,
               last_chunk, max_gap, expired_in, t_outcome>>

supVars == <<monitor_pc, opencode_process, bridge_process, restart_count,
             bridge_restart_count, sup_shutdown_event, delays, starts, fatal,
             opencode_ready, start_mode, image_build_mode, bridge_configured,
             done, healthy>>

callVars == <<call_pc, call_args, call_result>>

vars == <<psVars, sharedVars, idVars, linkVars, timerVars, supVars, callVars>>

(***************************************************************************)
(* Bounds                                                                  *)
(***************************************************************************)
MaxEvents == 3                  \* SSE events received in one prompt
MAX_PENDING_PART_EVENTS == 2    \* AgentBridge.MAX_PENDING_PART_EVENTS, scaled down from 2000

(***************************************************************************)
(* Python values                                                           *)
(***************************************************************************)
Null == "<null>"                \* None / absent key

Get(d, k, default) == IF k \in DOMAIN d THEN d[k] ELSE default

DictSet(d, k, v) == [x \in (DOMAIN d) \cup {k} |-> IF x = k THEN v ELSE d[x]]

DictPop(d, k) == [x \in (DOMAIN d) \ {k} |-> d[x]]

EmptyDict == [x \in {} |-> Null]

Falsy(v) == v = Null \/ v = ""          \* truth value of a str | None

Or(a, b) == IF Falsy(a) THEN b ELSE a    \* Python's  a or b

(***************************************************************************)
(* Identifiers of the environment                                          *)
(***************************************************************************)
SANDBOX_ID == "sb1"
CPMsgIds == {"cp1"}                 \* control-plane message ids
OurSession == "ses_A"
OtherSession == "ses_B"
OurUserMsg == "msg_u2"              \* id generated for this prompt
OtherUserMsg == "msg_u1"            \* user message of an earlier prompt
MsgIds == {"M1", "M2"}              \* assistant message ids of the agent
PartIds == {"p1", "p2"}
CallIds == {"c1"}

(***************************************************************************)
(* Inputs: parts, SSE events, final message lists                          *)
(***************************************************************************)
NoInput == {}                       \* state.input == {}
SomeInput == {<<"command", "ls">>}

TextPart(pid, m, s, t) ==
    [type |-> "text", id |-> pid, messageID |-> m, sessionID |-> s, text |-> t]

ToolPart(cid, st, inp, m, s) ==
    [type |-> "tool", id |-> "pt", messageID |-> m, sessionID |-> s,
     tool |-> "bash", callID |-> cid,
     state |-> [status |-> st, input |-> inp,
                output |-> IF st = "completed" THEN "out" ELSE ""]]

StepPart(ty, m, s) ==
    [type |-> ty, id |-> "ps", messageID |-> m, sessionID |-> s,
     cost |-> 1, tokens |-> 7, reason |-> "stop"]

\* (part id, delta, text) of the text part updates
TextUpdates == {<<"p1", "ab", "">>, <<"p1", Null, "c">>, <<"p1", "", "">>,
                <<"p2", "ab", "">>}

\* (status, input) of the tool part updates
ToolUpdates == {<<"pending", NoInput>>, <<"pending", SomeInput>>,
                <<"completed", SomeInput>>}

PartUpdated(part, delta, ps) ==
    [type |-> "message.part.updated",
     properties |-> [part |-> part, delta |-> delta, sessionID |-> ps]]

PartEvents ==
    UNION { { PartUpdated(TextPart(u[1], m, s, u[3]), u[2], Null) : u \in TextUpdates }
            \cup
            { PartUpdated(ToolPart(cid, u[1], u[2], m, s), Null, Null) :
                cid \in CallIds, u \in ToolUpdates }
            \cup
            { PartUpdated(StepPart(ty, m, s), Null, Null) :
                ty \in {"step-start", "step-finish"} }
          : m \in MsgIds, s \in {OurSession, OtherSession} }
    \cup
    \* a part without message id, without session id, and with the session
    \* id on the event instead of the part
    { PartUpdated(StepPart("step-start", "", OurSession), Null, Null),
      PartUpdated(StepPart("step-start", "M1", Null), Null, Null),
      PartUpdated(StepPart("step-start", "M1", Null), Null, OtherSession),
      PartUpdated(StepPart("step-start", "M1", Null), Null, OurSession) }

MessageUpdated(sid, id, parent, role) ==
    [type |-> "message.updated",
     properties |-> [info |-> [sessionID |-> sid, id |-> id, parentID |-> parent,
                               role |-> role, finish |-> ""]]]

MessageEvents ==
    { MessageUpdated(sid, id, parent, role) :
        sid \in {OurSession, OtherSession}, id \in MsgIds,
        parent \in {OurUserMsg, OtherUserMsg}, role \in {"assistant", "user"} }
    \cup { MessageUpdated(OurSession, "", OurUserMsg, "assistant"),
           MessageUpdated(Null, "M1", OurUserMsg, "assistant") }

SessionEvent(ty, sid) == [type |-> ty, properties |-> [sessionID |-> sid]]

EventSessions == {OurSession, OtherSession, Null}

IdleEvents == { SessionEvent("session.idle", sid) : sid \in EventSessions }

StatusEvents ==
    { [type |-> "session.status",
       properties |-> [sessionID |-> sid, status |-> [type |-> t]]] :
        sid \in EventSessions, t \in {"idle", "busy"} }

ErrorEvents ==
    { [type |-> "session.error",
       properties |-> [sessionID |-> sid, error |-> [message |-> msg]]] :
        sid \in EventSessions, msg \in {"boom", Null} }

ServerEvents ==
    { [type |-> "server.connected", properties |-> EmptyDict],
      [type |-> "server.heartbeat", properties |-> EmptyDict] }

\* GET /session/<id>/message
FetchedMessage(role, id, parent, pid, t) ==
    [info |-> [role |-> role, id |-> id, parentID |-> parent],
     parts |-> << [type |-> "text", id |-> pid, text |-> t] >>]

\* status 0 stands for a GET that raised
FetchResponses ==
    { [status |-> 500, messages |-> <<>>],
      [status |-> 0, messages |-> <<>>],
      [status |-> 200, messages |-> <<>>],
      [status |-> 200, messages |->
          << FetchedMessage("user", OurUserMsg, "", "p0", "question") >>],
      [status |-> 200, messages |->
          << FetchedMessage("assistant", "M1", OurUserMsg, "p1", "c") >>],
      [status |-> 200, messages |->
          << FetchedMessage("assistant", "M1", OurUserMsg, "p1", "abcd") >>],
      [status |-> 200, messages |->
          << FetchedMessage("assistant", "M2", OtherUserMsg, "p2", "abcd") >>],
      [status |-> 200, messages |->
          << FetchedMessage("assistant", "M0", OtherUserMsg, "p9", "old answer"),
             FetchedMessage("user", OurUserMsg, "", "p0", "question"),
             FetchedMessage("assistant", "M1", OurUserMsg, "p1", "abcde") >>] }

(***************************************************************************)
(* _send_event                                                             *)
(***************************************************************************)
Now == "t_send"                     \* time.time() at the moment of sending

Stamp(event) ==
    [k \in (DOMAIN event) \cup {"sandboxId", "timestamp"} |->
        IF k = "sandboxId" THEN SANDBOX_ID
        ELSE IF k = "timestamp" THEN Get(event, "timestamp", Now)
        ELSE event[k]]

\* the link's outgoing log after  _send_event(e)  for each e of events
SendEvents(log, link, events) ==
    IF link # "open" THEN log
    ELSE log \o [i \in 1..Len(events) |-> Stamp(events[i])]

ExecutionComplete(mid, success, error) ==
    IF success
    THEN [type |-> "execution_complete", messageId |-> mid, success |-> TRUE]
    ELSE [type |-> "execution_complete", messageId |-> mid, success |-> FALSE,
          error |-> error]

(***************************************************************************)
(* Part translation                                                        *)
(***************************************************************************)
\* faulty variant: the event carries the part's own (agent-side) message id
TransformPartToEvent_AgentMessageId(part, mid) ==
    LET state == Get(part, "state", EmptyDict)
        status == Get(state, "status", "")
        tool_input == Get(state, "input", {})
    IN  IF status \in {"pending", ""} /\ tool_input = {}
        THEN <<>>
        ELSE << [type |-> "tool_call",
                 tool |-> Get(part, "tool", ""),
                 args |-> tool_input,
                 callId |-> Get(part, "callID", ""),
                 status |-> status,
                 output |-> Get(state, "output", ""),
                 messageId |-> Get(part, "messageID", "")] >>

\* the tool branch of _transform_part_to_event; <<>> stands for None
TransformPartToEvent(part, mid) ==
    LET state == Get(part, "state", EmptyDict)
        status == Get(state, "status", "")
        tool_input == Get(state, "input", {})
    IN  IF status \in {"pending", ""} /\ tool_input = {}
        THEN <<>>
        ELSE << [type |-> "tool_call",
                 tool |-> Get(part, "tool", ""),
                 args |-> tool_input,
                 callId |-> Get(part, "callID", ""),
                 status |-> status,
                 output |-> Get(state, "output", ""),
                 messageId |-> mid] >>

ToolKey(part) ==
    "tool:" \o Get(part, "callID", "") \o ":"
            \o Get(Get(part, "state", EmptyDict), "status", "")

\* handle_part, text branch: the new cumulative_text and the events
HandleTextPart(ct, part, delta, mid) ==
    LET part_id == Get(part, "id", "")
        ct2 == IF ~Falsy(delta)
               THEN DictSet(ct, part_id, Get(ct, part_id, "") \o delta)
               ELSE DictSet(ct, part_id, Get(part, "text", ""))
    IN  [ct |-> ct2,
         events |-> IF ~Falsy(ct2[part_id])
                    THEN << [type |-> "token", content |-> ct2[part_id],
                             messageId |-> mid] >>
                    ELSE <<>>]

\* faulty variant: the emitted key is never recorded
HandleToolPart_KeyNotRecorded(ets, part, mid) ==
    LET tool_event == TransformPartToEvent(part, mid)
        tool_key == ToolKey(part)
    IN  IF tool_event # <<>> /\ tool_key \notin ets
        THEN [ets |-> ets, events |-> tool_event]
        ELSE [ets |-> ets, events |-> <<>>]

\* handle_part, tool branch: the new emitted_tool_states and the events
HandleToolPart(ets, part, mid) ==
    LET tool_event == TransformPartToEvent(part, mid)
        tool_key == ToolKey(part)
    IN  IF tool_event # <<>> /\ tool_key \notin ets
        THEN [ets |-> ets \cup {tool_key}, events |-> tool_event]
        ELSE [ets |-> ets, events |-> <<>>]

\* handle_part: the new cumulative_text and emitted_tool_states, and the
\* events it returns
HandlePart(ct, ets, part, delta, mid) ==
    LET part_type == Get(part, "type", "")
    IN  CASE part_type = "text" ->
                LET t == HandleTextPart(ct, part, delta, mid)
                IN  [ct |-> t.ct, ets |-> ets, events |-> t.events]
          [] part_type = "tool" ->
                LET t == HandleToolPart(ets, part, mid)
                IN  [ct |-> ct, ets |-> t.ets, events |-> t.events]
          [] part_type = "step-start" ->
                [ct |-> ct, ets |-> ets,
                 events |-> << [type |-> "step_start", messageId |-> mid] >>]
          [] part_type = "step-finish" ->
                [ct |-> ct, ets |-> ets,
                 events |-> << [type |-> "step_finish", cost |-> Get(part, "cost", Null),
                                tokens |-> Get(part, "tokens", Null),
                                reason |-> Get(part, "reason", Null),
                                messageId |-> mid] >>]
          [] OTHER -> [ct |-> ct, ets |-> ets, events |-> <<>>]

RECURSIVE Repeat(_, _)
Repeat(n, x) == IF n = 0 THEN <<>> ELSE <<x>> \o Repeat(n - 1, x)

\* origin of the events one part produced (history): the SSE event that
\* carried the part, the SSE event during which they were sent, the
\* assistant message and the part
MetaOf(n, src, at, msg, part_id, origin) ==
    Repeat(n, [src |-> src, at |-> at, msg |-> msg, part |-> part_id,
               origin |-> origin])

\* faulty variant: the popped list is replayed newest first
RECURSIVE FlushPending_NewestFirst(_, _, _, _, _)
FlushPending_NewestFirst(ct, ets, pending, mid, at) ==
    IF pending = <<>>
    THEN [ct |-> ct, ets |-> ets, events |-> <<>>, metas |-> <<>>]
    ELSE LET item == pending[Len(pending)]
             h == HandlePart(ct, ets, item.part, item.delta, mid)
             rest == FlushPending_NewestFirst(h.ct, h.ets,
                                              SubSeq(pending, 1, Len(pending) - 1),
                                              mid, at)
         IN  [ct |-> rest.ct, ets |-> rest.ets,
              events |-> h.events \o rest.events,
              metas |-> MetaOf(Len(h.events), item.src, at,
                               Get(item.part, "messageID", ""),
                               Get(item.part, "id", ""), "sse") \o rest.metas]

\* the loop over a popped pending list:  for part, delta in pending: handle_part
RECURSIVE FlushPending(_, _, _, _, _)
FlushPending(ct, ets, pending, mid, at) ==
    IF pending = <<>>
    THEN [ct |-> ct, ets |-> ets, events |-> <<>>, metas |-> <<>>]
    ELSE LET item == Head(pending)
             h == HandlePart(ct, ets, item.part, item.delta, mid)
             rest == FlushPending(h.ct, h.ets, Tail(pending), mid, at)
         IN  [ct |-> rest.ct, ets |-> rest.ets,
              events |-> h.events \o rest.events,
              metas |-> MetaOf(Len(h.events), item.src, at,
                               Get(item.part, "messageID", ""),
                               Get(item.part, "id", ""), "sse") \o rest.metas]

\* faulty variant: the cap is tested with > instead of >=
BufferPart_OffByOne(pp, total, logged, oc_msg_id, part, delta, src) ==
    IF total > MAX_PENDING_PART_EVENTS
    THEN [pp |-> pp, total |-> total, logged |-> TRUE,
          warned |-> IF logged THEN 0 ELSE 1]
    ELSE [pp |-> DictSet(pp, oc_msg_id,
                         Append(Get(pp, oc_msg_id, <<>>),
                                [part |-> part, delta |-> delta, src |-> src])),
          total |-> total + 1, logged |-> logged, warned |-> 0]

\* buffer_part: the new pending_parts, pending_parts_total,
\* pending_drop_logged and the number of warnings it logs
BufferPart(pp, total, logged, oc_msg_id, part, delta, src) ==
    IF total >= MAX_PENDING_PART_EVENTS
    THEN [pp |-> pp, total |-> total, logged |-> TRUE,
          warned |-> IF logged THEN 0 ELSE 1]
    ELSE [pp |-> DictSet(pp, oc_msg_id,
                         Append(Get(pp, oc_msg_id, <<>>),
                                [part |-> part, delta |-> delta, src |-> src])),
          total |-> total + 1, logged |-> logged, warned |-> 0]

(***************************************************************************)
(* _fetch_final_message_state                                              *)
(***************************************************************************)
\* faulty variant: a text of equal length is emitted again
RECURSIVE FetchParts_NotStrict(_, _, _)
FetchParts_NotStrict(ct, parts, mid) ==
    IF parts = <<>>
    THEN [ct |-> ct, events |-> <<>>, pids |-> <<>>]
    ELSE LET part == Head(parts)
             part_id == Get(part, "id", "")
             text == Get(part, "text", "")
             emit == Get(part, "type", "") = "text"
                     /\ Len(text) >= Len(Get(ct, part_id, ""))
             ct2 == IF emit THEN DictSet(ct, part_id, text) ELSE ct
             rest == FetchParts_NotStrict(ct2, Tail(parts), mid)
         IN  [ct |-> rest.ct,
              events |-> (IF emit
                          THEN << [type |-> "token", content |-> text,
                                   messageId |-> mid] >>
                          ELSE <<>>) \o rest.events,
              pids |-> (IF emit THEN << part_id >> ELSE <<>>) \o rest.pids]

\* the loop over the parts of one message
RECURSIVE FetchParts(_, _, _)
FetchParts(ct, parts, mid) ==
    IF parts = <<>>
    THEN [ct |-> ct, events |-> <<>>, pids |-> <<>>]
    ELSE LET part == Head(parts)
             part_id == Get(part, "id", "")
             text == Get(part, "text", "")
             emit == Get(part, "type", "") = "text"
                     /\ Len(text) > Len(Get(ct, part_id, ""))
             ct2 == IF emit THEN DictSet(ct, part_id, text) ELSE ct
             rest == FetchParts(ct2, Tail(parts), mid)
         IN  [ct |-> rest.ct,
              events |-> (IF emit
                          THEN << [type |-> "token", content |-> text,
                                   messageId |-> mid] >>
                          ELSE <<>>) \o rest.events,
              pids |-> (IF emit THEN << part_id >> ELSE <<>>) \o rest.pids]

\* faulty variant: every assistant message of the session is taken
RECURSIVE FetchMessages_AnyAssistant(_, _, _, _, _)
FetchMessages_AnyAssistant(ct, messages, ocmid, tracked, mid) ==
    IF messages = <<>>
    THEN [ct |-> ct, events |-> <<>>, pids |-> <<>>, infos |-> <<>>]
    ELSE LET msg == Head(messages)
             info == Get(msg, "info", EmptyDict)
             skip == Get(info, "role", "") # "assistant"
             here == IF skip THEN [ct |-> ct, events |-> <<>>, pids |-> <<>>]
                     ELSE FetchParts(ct, Get(msg, "parts", <<>>), mid)
             rest == FetchMessages_AnyAssistant(here.ct, Tail(messages), ocmid,
                                                tracked, mid)
         IN  [ct |-> rest.ct, events |-> here.events \o rest.events,
              pids |-> here.pids \o rest.pids,
              infos |-> Repeat(Len(here.pids), info) \o rest.infos]

\* the loop over the messages; infos names, per emitted token, the message
\* it was taken from (history)
RECURSIVE FetchMessages(_, _, _, _, _)
FetchMessages(ct, messages, ocmid, tracked, mid) ==
    IF messages = <<>>
    THEN [ct |-> ct, events |-> <<>>, pids |-> <<>>, infos |-> <<>>]
    ELSE LET msg == Head(messages)
             info == Get(msg, "info", EmptyDict)
             parent_matches == Get(info, "parentID", "") = ocmid
             in_tracked_set == Get(info, "id", "") \in tracked
             skip == Get(info, "role", "") # "assistant"
                     \/ (~parent_matches /\ ~in_tracked_set)
             here == IF skip THEN [ct |-> ct, events |-> <<>>, pids |-> <<>>]
                     ELSE FetchParts(ct, Get(msg, "parts", <<>>), mid)
             rest == FetchMessages(here.ct, Tail(messages), ocmid, tracked, mid)
         IN  [ct |-> rest.ct, events |-> here.events \o rest.events,
              pids |-> here.pids \o rest.pids,
              infos |-> Repeat(Len(here.pids), info) \o rest.infos]

FetchFinalMessageState(ct, sid, resp, ocmid, tracked, mid) ==
    IF sid = Null \/ resp.status # 200
    THEN [ct |-> ct, events |-> <<>>, pids |-> <<>>, infos |-> <<>>]
    ELSE FetchMessages(ct, resp.messages, ocmid, tracked, mid)

(***************************************************************************)
(* Spec: one prompt session                                                *)
(***************************************************************************)
NoLast == [foreign |-> FALSE, dedup |-> FALSE]

PromptInit ==
    /\ pc = "start"
    /\ message_id \in CPMsgIds
    /\ opencode_session_id \in {Null, OurSession}
    /\ opencode_message_id = Null
    /\ cumulative_text = EmptyDict
    /\ emitted_tool_states = {}
    /\ allowed_assistant_msg_ids = {}
    /\ pending_parts = EmptyDict
    /\ pending_parts_total = 0
    /\ pending_drop_logged = FALSE
    /\ warnings = 0
    /\ stop_requests = 0
    /\ nEvents = 0
    /\ termination = ""
    /\ ws = "open"
    /\ sent = <<>>
    /\ sentMeta = <<>>
    /\ admittedAt = EmptyDict
    /\ admittedBy = EmptyDict
    /\ last = NoLast
    /\ http = <<>>

\* origin of the tokens of a final-state fetch (history)
FetchMetas(f, at) ==
    [i \in 1..Len(f.pids) |->
        [src |-> 0, at |-> at, msg |-> f.infos[i].id, part |-> f.pids[i],
         origin |-> "fetch", role |-> f.infos[i].role,
         parent |-> f.infos[i].parentID]]

\* await self._send_event(e) for each e of events, with their origin
Emit(events, metas) ==
    /\ sent' = SendEvents(sent, ws, events)
    /\ sentMeta' = IF ws = "open" THEN sentMeta \o metas ELSE sentMeta

\* the prompt ends: the remaining events, then execution_complete
Finish(events, metas, success, error, how) ==
    /\ Emit(events \o << ExecutionComplete(message_id, success, error) >>,
            metas \o MetaOf(1, 0, 0, "", "", "terminal"))
    /\ pc' = "done"
    /\ termination' = how

LocalsUnchanged ==
    UNCHANGED <<cumulative_text, emitted_tool_states, allowed_assistant_msg_ids,
                pending_parts, pending_parts_total, pending_drop_logged,
                warnings, admittedAt, admittedBy>>

\* status codes of the agent server's answers to GET /event and POST prompt_async
StatusCodes == {"200", "204", "500"}

\* one request to the agent server, with the number of events sent before it
Request(op, n) == [op |-> op, n |-> n]

\* _handle_prompt up to the first request of the generator:
\* session creation, id generation, the per-prompt state
StartPrompt ==
    /\ pc = "start"
    /\ \E created \in {OurSession, Null, "raise"} :
         LET sid == IF opencode_session_id = Null THEN created
                    ELSE opencode_session_id
         IN  /\ opencode_session_id' = IF sid = "raise" THEN Null ELSE sid
             /\ nEvents' = 0
             /\ IF sid = "raise"
                THEN \* _create_opencode_session raised: the done callback reports it
                     /\ Finish(<<>>, <<>>, FALSE, "session creation failed",
                               "start_exception")
                     /\ UNCHANGED opencode_message_id
                ELSE IF sid = Null
                THEN /\ Finish(<<>>, <<>>, FALSE, "OpenCode session not initialized",
                               "not_initialized")
                     /\ UNCHANGED opencode_message_id
                ELSE /\ opencode_message_id' = OurUserMsg
                     /\ pc' = "open"
                     /\ UNCHANGED <<termination, sent, sentMeta>>
    /\ cumulative_text' = EmptyDict
    /\ emitted_tool_states' = {}
    /\ allowed_assistant_msg_ids' = {}
    /\ pending_parts' = EmptyDict
    /\ pending_parts_total' = 0
    /\ pending_drop_logged' = FALSE
    /\ UNCHANGED <<message_id, warnings, stop_requests, admittedAt, admittedBy,
                   last, ws, http>>
    /\ UNCHANGED <<idVars, linkVars, timerVars, supVars, callVars>>

\* GET /event and POST prompt_async
OpenStream ==
    /\ pc = "open"
    /\ \E sse_status \in StatusCodes, prompt_status \in StatusCodes :
         IF sse_status # "200"
         THEN /\ http' = Append(http, Request("GET event", Len(sent)))
              /\ Finish(<<>>, <<>>, FALSE, "SSE connection failed: " \o sse_status,
                        "sse_open_failed")
         ELSE IF prompt_status \notin {"200", "204"}
         THEN /\ http' = http \o << Request("GET event", Len(sent)),
                                    Request("POST prompt_async", Len(sent)) >>
              /\ Finish(<<>>, <<>>, FALSE, "Async prompt failed: " \o prompt_status,
                        "post_failed")
         ELSE /\ pc' = "stream"
              /\ http' = http \o << Request("GET event", Len(sent)),
                                    Request("POST prompt_async", Len(sent)) >>
              /\ UNCHANGED <<termination, sent, sentMeta>>
    /\ LocalsUnchanged
    /\ UNCHANGED <<message_id, opencode_session_id, opencode_message_id,
                   stop_requests, nEvents, last, ws>>
    /\ UNCHANGED <<idVars, linkVars, timerVars, supVars, callVars>>

\* the requests under way when the deadline passes before the stream is read
Opening ==
    IF pc = "open"
    THEN { << Request("GET event", Len(sent)) >>,
           << Request("GET event", Len(sent)),
              Request("POST prompt_async", Len(sent)) >> }
    ELSE { <<>> }

\* faulty variant: the final state is fetched before the stop is requested
TimeoutRecovery_FetchBeforeStop(error, how) ==
    \E resp \in FetchResponses, opening \in Opening :
        LET f == FetchFinalMessageState(cumulative_text, opencode_session_id, resp,
                                        opencode_message_id,
                                        allowed_assistant_msg_ids, message_id)
        IN  /\ stop_requests' = stop_requests + 1
            /\ http' = http \o opening \o << Request("GET message", Len(sent)),
                                              Request("POST stop", Len(sent) + Len(f.events)) >>
            /\ cumulative_text' = f.ct
            /\ Finish(f.events, FetchMetas(f, nEvents), FALSE, error, how)

\* the recovery path of both timeouts: stop, final-state fetch, raise
TimeoutRecovery(error, how) ==
    \E resp \in FetchResponses, opening \in Opening :
        LET f == FetchFinalMessageState(cumulative_text, opencode_session_id, resp,
                                        opencode_message_id,
                                        allowed_assistant_msg_ids, message_id)
        IN  /\ stop_requests' = stop_requests + 1
            /\ http' = http \o opening \o << Request("POST stop", Len(sent)),
                                              Request("GET message", Len(sent)) >>
            /\ cumulative_text' = f.ct
            /\ Finish(f.events, FetchMetas(f, nEvents), FALSE, error, how)

\* except TimeoutError: no chunk within the inactivity window
InactivityTimeout ==
    /\ pc \in {"open", "stream"}
    /\ nEvents' = nEvents
    /\ TimeoutRecovery("SSE stream inactive", "inactivity")
    /\ UNCHANGED <<message_id, opencode_session_id, opencode_message_id,
                   emitted_tool_states, allowed_assistant_msg_ids, pending_parts,
                   pending_parts_total, pending_drop_logged, warnings,
                   admittedAt, admittedBy, last, ws>>
    /\ UNCHANGED <<idVars, linkVars, timerVars, supVars, callVars>>

\* if loop.time() > prompt_start + self.PROMPT_MAX_DURATION, after each event
DurationCheck ==
    /\ pc = "check"
    /\ nEvents' = nEvents
    /\ \E duration_exceeded \in BOOLEAN :
         IF duration_exceeded
         THEN TimeoutRecovery("Prompt exceeded max duration", "max_duration")
         ELSE /\ pc' = "stream"
              /\ UNCHANGED <<cumulative_text, stop_requests, termination, sent,
                             sentMeta, http>>
    /\ UNCHANGED <<message_id, opencode_session_id, opencode_message_id,
                   emitted_tool_states, allowed_assistant_msg_ids, pending_parts,
                   pending_parts_total, pending_drop_logged, warnings,
                   admittedAt, admittedBy, last, ws>>
    /\ UNCHANGED <<idVars, linkVars, timerVars, supVars, callVars>>

\* faulty variant: only the event's own sessionID is looked at, not the part's
PassesFilter_EventOnly(ev) ==
    LET event_session_id == Get(ev.properties, "sessionID", Null)
    IN  Falsy(event_session_id) \/ event_session_id = opencode_session_id

\* the session filter at the head of the SSE loop
PassesFilter(ev) ==
    LET props == ev.properties
        event_session_id == Or(Get(props, "sessionID", Null),
                               Get(Get(props, "part", EmptyDict), "sessionID", Null))
    IN  Falsy(event_session_id) \/ event_session_id = opencode_session_id

\* the session an SSE event names, wherever it carries it (history)
EventSessionOf(ev) ==
    LET props == ev.properties
        a == Get(props, "sessionID", Null)
        b == Get(Get(props, "part", EmptyDict), "sessionID", Null)
        c == Get(Get(props, "info", EmptyDict), "sessionID", Null)
    IN  IF a # Null THEN a ELSE IF b # Null THEN b ELSE c

IsForeign(ev) ==
    EventSessionOf(ev) # Null /\ EventSessionOf(ev) # opencode_session_id

\* tool parts of a list that _transform_part_to_event does not suppress
ToolCandidates(items) ==
    Cardinality({ i \in 1..Len(items) :
                    /\ Get(items[i].part, "type", "") = "tool"
                    /\ TransformPartToEvent(items[i].part, "") # <<>> })

ToolEvents(events) ==
    Cardinality({ i \in 1..Len(events) : events[i].type = "tool_call" })

Receiving ==
    /\ pc = "stream"
    /\ nEvents < MaxEvents
    /\ nEvents' = nEvents + 1

StreamFrame ==
    UNCHANGED <<message_id, opencode_session_id, opencode_message_id,
                stop_requests, ws>>

\* server.connected / server.heartbeat
ReceiveServerEvent ==
    /\ Receiving
    /\ \E ev \in ServerEvents : last' = NoLast
    /\ pc' = "check"
    /\ LocalsUnchanged
    /\ StreamFrame
    /\ UNCHANGED <<termination, sent, sentMeta>>
    /\ UNCHANGED <<http, idVars, linkVars, timerVars, supVars, callVars>>

\* faulty variant: any assistant message of the session is admitted
Admits_AnyParent(info) ==
    /\ Get(info, "sessionID", Null) = opencode_session_id
    /\ Get(info, "role", "") = "assistant"
    /\ Get(info, "id", "") # ""

\* the test of a message.updated event that admits its message
Admits(info) ==
    /\ Get(info, "sessionID", Null) = opencode_session_id
    /\ Get(info, "role", "") = "assistant"
    /\ Get(info, "parentID", "") = opencode_message_id
    /\ Get(info, "id", "") # ""

\* faulty variant: the length of the flushed list is not subtracted
ReceiveMessageUpdated_TotalKept ==
    /\ Receiving
    /\ \E ev \in MessageEvents :
         LET info == Get(ev.properties, "info", EmptyDict)
             oc_msg_id == Get(info, "id", "")
             admit == PassesFilter(ev) /\ Admits(info)
             pending == Get(pending_parts, oc_msg_id, <<>>)
             fl == FlushPending(cumulative_text, emitted_tool_states, pending,
                                message_id, nEvents + 1)
         IN  IF admit
             THEN /\ allowed_assistant_msg_ids' = allowed_assistant_msg_ids \cup {oc_msg_id}
                  /\ pending_parts' = DictPop(pending_parts, oc_msg_id)
                  /\ pending_parts_total' = pending_parts_total
                  /\ cumulative_text' = fl.ct
                  /\ emitted_tool_states' = fl.ets
                  /\ Emit(fl.events, fl.metas)
                  /\ admittedAt' = IF oc_msg_id \in DOMAIN admittedAt THEN admittedAt
                                   ELSE DictSet(admittedAt, oc_msg_id, nEvents + 1)
                  /\ admittedBy' = DictSet(admittedBy, oc_msg_id,
                                           Get(admittedBy, oc_msg_id, {}) \cup {info})
                  /\ last' = [foreign |-> IsForeign(ev),
                              dedup |-> ToolCandidates(pending) > ToolEvents(fl.events)]
             ELSE /\ last' = [NoLast EXCEPT !.foreign = IsForeign(ev)]
                  /\ UNCHANGED <<allowed_assistant_msg_ids, pending_parts,
                                 pending_parts_total, cumulative_text,
                                 emitted_tool_states, sent, sentMeta, admittedAt,
                                 admittedBy>>
    /\ pc' = "check"
    /\ StreamFrame
    /\ UNCHANGED <<pending_drop_logged, warnings, termination>>
    /\ UNCHANGED <<http, idVars, linkVars, timerVars, supVars, callVars>>

\* message.updated: admission and flush of the buffered parts
ReceiveMessageUpdated ==
    /\ Receiving
    /\ \E ev \in MessageEvents :
         LET info == Get(ev.properties, "info", EmptyDict)
             oc_msg_id == Get(info, "id", "")
             admit == PassesFilter(ev) /\ Admits(info)
             pending == Get(pending_parts, oc_msg_id, <<>>)
             fl == FlushPending(cumulative_text, emitted_tool_states, pending,
                                message_id, nEvents + 1)
         IN  IF admit
             THEN /\ allowed_assistant_msg_ids' = allowed_assistant_msg_ids \cup {oc_msg_id}
                  /\ pending_parts' = DictPop(pending_parts, oc_msg_id)
                  /\ pending_parts_total' = pending_parts_total - Len(pending)
                  /\ cumulative_text' = fl.ct
                  /\ emitted_tool_states' = fl.ets
                  /\ Emit(fl.events, fl.metas)
                  /\ admittedAt' = IF oc_msg_id \in DOMAIN admittedAt THEN admittedAt
                                   ELSE DictSet(admittedAt, oc_msg_id, nEvents + 1)
                  /\ admittedBy' = DictSet(admittedBy, oc_msg_id,
                                           Get(admittedBy, oc_msg_id, {}) \cup {info})
                  /\ last' = [foreign |-> IsForeign(ev),
                              dedup |-> ToolCandidates(pending) > ToolEvents(fl.events)]
             ELSE /\ last' = [NoLast EXCEPT !.foreign = IsForeign(ev)]
                  /\ UNCHANGED <<allowed_assistant_msg_ids, pending_parts,
                                 pending_parts_total, cumulative_text,
                                 emitted_tool_states, sent, sentMeta, admittedAt,
                                 admittedBy>>
    /\ pc' = "check"
    /\ StreamFrame
    /\ UNCHANGED <<pending_drop_logged, warnings, termination>>
    /\ UNCHANGED <<http, idVars, linkVars, timerVars, supVars, callVars>>

\* message.part.updated: translate at once, or buffer until admission
ReceivePartUpdated ==
    /\ Receiving
    /\ \E ev \in PartEvents :
         LET part == Get(ev.properties, "part", EmptyDict)
             delta == Get(ev.properties, "delta", Null)
             oc_msg_id == Get(part, "messageID", "")
             pass == PassesFilter(ev)
             direct == pass /\ oc_msg_id \in allowed_assistant_msg_ids
             buffer == pass /\ ~direct /\ oc_msg_id # ""
             h == HandlePart(cumulative_text, emitted_tool_states, part, delta,
                             message_id)
             b == BufferPart(pending_parts, pending_parts_total, pending_drop_logged,
                             oc_msg_id, part, delta, nEvents + 1)
         IN  /\ cumulative_text' = IF direct THEN h.ct ELSE cumulative_text
             /\ emitted_tool_states' = IF direct THEN h.ets ELSE emitted_tool_states
             /\ IF direct
                THEN Emit(h.events, MetaOf(Len(h.events), nEvents + 1, nEvents + 1,
                                           oc_msg_id, Get(part, "id", ""), "sse"))
                ELSE UNCHANGED <<sent, sentMeta>>
             /\ pending_parts' = IF buffer THEN b.pp ELSE pending_parts
             /\ pending_parts_total' = IF buffer THEN b.total ELSE pending_parts_total
             /\ pending_drop_logged' = IF buffer THEN b.logged ELSE pending_drop_logged
             /\ warnings' = IF buffer THEN warnings + b.warned ELSE warnings
             /\ last' = [foreign |-> IsForeign(ev),
                         dedup |-> direct /\ ToolCandidates(<< [part |-> part] >>)
                                                > ToolEvents(h.events)]
    /\ pc' = "check"
    /\ StreamFrame
    /\ UNCHANGED <<allowed_assistant_msg_ids, termination, admittedAt, admittedBy>>
    /\ UNCHANGED <<http, idVars, linkVars, timerVars, supVars, callVars>>

\* session.idle, and session.status with status.type == "idle":
\* final-state fetch, then the generator returns
ReceiveIdle ==
    /\ Receiving
    /\ \E ev \in IdleEvents \cup StatusEvents :
         LET props == ev.properties
             ours == /\ PassesFilter(ev)
                     /\ Get(props, "sessionID", Null) = opencode_session_id
                     /\ \/ ev.type = "session.idle"
                        \/ Get(Get(props, "status", EmptyDict), "type", Null) = "idle"
         IN  /\ last' = [NoLast EXCEPT !.foreign = IsForeign(ev)]
             /\ IF ours
                THEN \E resp \in FetchResponses :
                       LET f == FetchFinalMessageState(
                                    cumulative_text, opencode_session_id, resp,
                                    opencode_message_id, allowed_assistant_msg_ids,
                                    message_id)
                       IN  /\ cumulative_text' = f.ct
                           /\ http' = Append(http, Request("GET message", Len(sent)))
                           /\ Finish(f.events, FetchMetas(f, nEvents + 1),
                                     TRUE, "", "idle")
                ELSE /\ pc' = "check"
                     /\ UNCHANGED <<cumulative_text, termination, sent, sentMeta,
                                    http>>
    /\ StreamFrame
    /\ UNCHANGED <<emitted_tool_states, allowed_assistant_msg_ids, pending_parts,
                   pending_parts_total, pending_drop_logged, warnings, admittedAt,
                   admittedBy>>
    /\ UNCHANGED <<idVars, linkVars, timerVars, supVars, callVars>>

\* session.error: one error event, then the generator returns
ReceiveSessionError ==
    /\ Receiving
    /\ \E ev \in ErrorEvents :
         LET props == ev.properties
             ours == /\ PassesFilter(ev)
                     /\ Get(props, "sessionID", Null) = opencode_session_id
             error_msg == Get(Get(props, "error", EmptyDict), "message", Null)
         IN  /\ last' = [NoLast EXCEPT !.foreign = IsForeign(ev)]
             /\ IF ours
                THEN Finish(<< [type |-> "error",
                                error |-> Or(error_msg, "Unknown error"),
                                messageId |-> message_id] >>,
                            MetaOf(1, nEvents + 1, nEvents + 1, "", "", "error"),
                            TRUE, "", "session_error")
                ELSE /\ pc' = "check"
                     /\ UNCHANGED <<termination, sent, sentMeta>>
    /\ LocalsUnchanged
    /\ StreamFrame
    /\ UNCHANGED <<http, idVars, linkVars, timerVars, supVars, callVars>>

\* the SSE response ends without an idle event: the generator returns
StreamEnds ==
    /\ pc = "stream"
    /\ nEvents' = nEvents
    /\ Finish(<<>>, <<>>, TRUE, "", "stream_end")
    /\ LocalsUnchanged
    /\ StreamFrame
    /\ UNCHANGED last
    /\ UNCHANGED <<http, idVars, linkVars, timerVars, supVars, callVars>>

\* httpx.ReadError while reading the SSE response
ReadError ==
    /\ pc = "stream"
    /\ nEvents' = nEvents
    /\ Finish(<<>>, <<>>, FALSE, "SSE read error", "read_error")
    /\ LocalsUnchanged
    /\ StreamFrame
    /\ UNCHANGED last
    /\ UNCHANGED <<http, idVars, linkVars, timerVars, supVars, callVars>>

\* the connection ends while the prompt runs: _connect_and_run's finally
\* cancels the task and clears self.ws, then handle_task_exception reports it
CancelPrompt ==
    /\ pc \in {"start", "open", "stream", "check"}
    /\ ws' = "none"
    /\ pc' = "cancelled"
    /\ termination' = "cancelled"
    /\ sent' = SendEvents(sent, ws',
                          << ExecutionComplete(message_id, FALSE, "Task was cancelled") >>)
    /\ LocalsUnchanged
    /\ UNCHANGED <<message_id, opencode_session_id, opencode_message_id,
                   stop_requests, nEvents, last, sentMeta>>
    /\ UNCHANGED <<http, idVars, linkVars, timerVars, supVars, callVars>>

PromptNext ==
    \/ StartPrompt
    \/ OpenStream
    \/ ReceiveServerEvent
    \/ ReceiveMessageUpdated
    \/ ReceivePartUpdated
    \/ ReceiveIdle
    \/ ReceiveSessionError
    \/ DurationCheck
    \/ InactivityTimeout
    \/ StreamEnds
    \/ ReadError
    \/ CancelPrompt

\* the variables of the other specifications, at rest
IdIdle ==
    /\ now_ms = <<0, 0, 0, 0>>
    /\ last_timestamp = <<0, 0, 0, 0>>
    /\ counter = 0
    /\ generated = <<>>
    /\ ticks = 0

\* no prompt session
PromptIdle ==
    /\ pc = "done"
    /\ message_id = Null
    /\ opencode_message_id = Null
    /\ cumulative_text = EmptyDict
    /\ emitted_tool_states = {}
    /\ allowed_assistant_msg_ids = {}
    /\ pending_parts = EmptyDict
    /\ pending_parts_total = 0
    /\ pending_drop_logged = FALSE
    /\ warnings = 0
    /\ nEvents = 0
    /\ termination = ""
    /\ admittedAt = EmptyDict
    /\ admittedBy = EmptyDict
    /\ last = NoLast
    /\ http = <<>>

\* AgentBridge.__init__
SharedIdle ==
    /\ opencode_session_id = Null
    /\ stop_requests = 0
    /\ ws = "none"
    /\ sent = <<>>
    /\ sentMeta = <<>>

LinkIdle ==
    /\ run_pc = "serve"
    /\ shutdown_event = FALSE
    /\ git_sync_complete = FALSE
    /\ reconnect_attempts = 0
    /\ connects = 1
    /\ commands = 1
    /\ tasks = <<>>
    /\ background_tasks = {}
    /\ heartbeat_task = "running"
    /\ heartbeats = 0
    /\ sessions_created = 0
    /\ connect_outcome = "none"

\* no prompt is being timed
TimerIdle ==
    /\ t_pc = "done"
    /\ clock = 0
    /\ deadline = 0
    /\ prompt_start = 0
    /\ sse_inactivity_timeout = 0
    /\ last_chunk = -1
    /\ max_gap = 0
    /\ expired_in = ""
    /\ t_outcome = ""

\* no supervisor
SupIdle ==
    /\ monitor_pc = "exit"
    /\ opencode_process = "running"
    /\ bridge_process = "running"
    /\ restart_count = 0
    /\ bridge_restart_count = 0
    /\ sup_shutdown_event = FALSE
    /\ delays = [c \in {"opencode", "bridge"} |-> <<>>]
    /\ starts = [c \in {"opencode", "bridge"} |-> 0]
    /\ fatal = <<>>
    /\ opencode_ready = TRUE
    /\ start_mode = [restored_from_snapshot |-> FALSE, from_repo_image |-> FALSE]
    /\ image_build_mode = FALSE
    /\ bridge_configured = TRUE
    /\ done = {}
    /\ healthy = 0

\* no call under study
CallIdle ==
    /\ call_pc = "idle"
    /\ call_args = <<>>
    /\ call_result = <<>>

Init == PromptInit /\ IdIdle /\ LinkIdle /\ TimerIdle /\ SupIdle /\ CallIdle

Next == PromptNext

Spec == Init /\ [][Next]_vars

TypeOK ==
    /\ pc \in {"start", "open", "stream", "check", "done", "cancelled"}
    /\ pending_parts_total \in Nat
    /\ Len(sent) = Len(sentMeta)

(***************************************************************************)
(* IdSpec: OpenCodeIdentifier.ascending                                    *)
(*                                                                         *)
(* int(time.time() * 1000) needs 41 bits today, so a clock reading is kept *)
(* as four base-0x1000 digits <<t3, t2, t1, t0>>, most significant first   *)
(* (48 bits).  An id is the sequence of the code points of its characters, *)
(* which is what Python's string comparison compares.                      *)
(***************************************************************************)
LIMB == 4096                        \* 0x1000
RANDOM_LENGTH == 14

\* OpenCodeIdentifier.PREFIXES, values as code points: "ses", "msg", "prt"
PREFIXES ==
    [session |-> <<115, 101, 115>>, message |-> <<109, 115, 103>>,
     part |-> <<112, 114, 116>>]

\* BASE62_CHARS[i], i in 0..61: "0".."9", "A".."Z", "a".."z"
BASE62_CHARS(i) == IF i < 10 THEN 48 + i ELSE IF i < 36 THEN 55 + i ELSE 61 + i

\* one digit of bytes.hex(): "0".."9", "a".."f"
HexChar(d) == IF d < 10 THEN 48 + d ELSE 87 + d

\* the three hex digits of one base-0x1000 digit
Hex3(v) == << HexChar(v \div 256), HexChar((v \div 16) % 16), HexChar(v % 16) >>

\* digits + n * 0x1000^(Len(digits) - i), carries included
RECURSIVE AddAt(_, _, _)
AddAt(digits, i, n) ==
    IF i = 0 \/ n = 0 THEN digits
    ELSE LET v == digits[i] + n
         IN  AddAt([digits EXCEPT ![i] = v % LIMB], i - 1, v \div LIMB)

\* current_timestamp * 0x1000 + cls._counter, as five digits
Encode(timestamp, cnt) == AddAt(timestamp \o <<0>>, 5, cnt)

\* encoded & 0xFFFFFFFFFFFF keeps the low 48 bits: the low four digits
Mask48(encoded) == SubSeq(encoded, 2, 5)

\* encoded_48bit.to_bytes(6, byteorder="big").hex()
TimestampHex(e48) == Hex3(e48[1]) \o Hex3(e48[2]) \o Hex3(e48[3]) \o Hex3(e48[4])

\* _random_base62(length) for a sequence of secrets.randbelow(62) results
RandomBase62(draws) == [i \in 1..Len(draws) |-> BASE62_CHARS(draws[i])]

\* the results of the RANDOM_LENGTH draws of one call: all lowest, all highest
RandomDraws == { Repeat(RANDOM_LENGTH, 0), Repeat(RANDOM_LENGTH, 61) }

\* f"{prefix_str}_{timestamp_hex}{random_suffix}"
FormatId(prefix, e48, draws) ==
    PREFIXES[prefix] \o <<95>> \o TimestampHex(e48) \o RandomBase62(draws)

\* Python's  a < b  on strings
LexLess(a, b) ==
    \E k \in 1..Len(b) :
        /\ \A j \in 1..(k - 1) : j <= Len(a) /\ a[j] = b[j]
        /\ IF k > Len(a) THEN TRUE ELSE a[k] < b[k]

\* the clock at the first call: an instant of 2026-11-06, the last
\* millisecond before t0 carries into t1, and the last millisecond before
\* 27 * 2^36 ms since the epoch (2028-10-17 20:04:31 UTC)
ClockStarts ==
    { <<26, 432, 2990, 512>>, <<26, 432, 2990, 4095>>, <<26, 4095, 4095, 4095>> }

MaxIds == 3                         \* calls of ascending
MaxTicks == 2                       \* advances of the clock

IdInit ==
    /\ now_ms \in ClockStarts
    /\ ticks = 0
    /\ last_timestamp = <<0, 0, 0, 0>>
    /\ counter = 0
    /\ generated = <<>>

\* time passes: the next reading is one millisecond or one t1 unit later
Tick ==
    /\ ticks < MaxTicks
    /\ \E i \in {3, 4} : now_ms' = AddAt(now_ms, i, 1)
    /\ ticks' = ticks + 1
    /\ UNCHANGED <<last_timestamp, counter, generated>>
    /\ UNCHANGED <<psVars, sharedVars, linkVars, timerVars, supVars, callVars>>

\* OpenCodeIdentifier.ascending(prefix)
Ascending ==
    /\ Len(generated) < MaxIds
    /\ \E prefix \in DOMAIN PREFIXES, draws \in RandomDraws :
         LET current_timestamp == now_ms
             cnt == IF current_timestamp # last_timestamp THEN 1 ELSE counter + 1
             encoded == Encode(current_timestamp, cnt)
             encoded_48bit == Mask48(encoded)
         IN  /\ last_timestamp' = current_timestamp
             /\ counter' = cnt
             /\ generated' = Append(generated,
                                    [prefix |-> prefix,
                                     id |-> FormatId(prefix, encoded_48bit, draws)])
    /\ UNCHANGED <<now_ms, ticks>>
    /\ UNCHANGED <<psVars, sharedVars, linkVars, timerVars, supVars, callVars>>

IdNext == Tick \/ Ascending

IdSpecInit == IdInit /\ PromptIdle /\ SharedIdle /\ LinkIdle /\ TimerIdle /\ SupIdle /\ CallIdle

IdSpec == IdSpecInit /\ [][IdNext]_vars

(***************************************************************************)
(* LinkSpec: run, _connect_and_run, _handle_command, the prompt tasks      *)
(*                                                                         *)
(* A prompt task is kept by its position only: created, creating (POST     *)
(* /session in flight), stream (inside the try of _handle_prompt), raised  *)
(* (an exception left _handle_prompt), cancelling (task.cancel() was       *)
(* called), and the final done, failed, cancelled.                         *)
(***************************************************************************)
MaxConnects == 2                    \* calls of _connect_and_run
MaxCommands == 3                    \* messages read from the link
MaxPrompts == 2                     \* prompt commands
MaxHeartbeats == 1                  \* wake-ups of the heartbeat loop
MaxTokens == 1                      \* events a prompt task streams

CommandTypes ==
    {"prompt", "stop", "snapshot", "shutdown", "git_sync_complete", "push",
     "unknown", "malformed"}

\* outcomes of websockets.connect
ConnectOutcomes ==
    {"ok", "HTTP 401", "HTTP 403", "HTTP 404", "HTTP 410", "HTTP 500", "OSError"}

\* the statuses _connect_and_run turns into SessionTerminatedError
FatalStatuses == {"HTTP 401", "HTTP 403", "HTTP 404", "HTTP 410"}

\* cmd["messageId"] of the n-th prompt command
PromptMessageId(n) == <<"cp1", "cp2", "cp3", "cp4">>[n]

\* data["id"] of the n-th POST /session
CreatedSession(n) == <<"ses_A", "ses_C", "ses_D", "ses_E">>[n]

Running == {"created", "creating", "stream"}

RECONNECT_BACKOFF_BASE == 2
RECONNECT_MAX_DELAY == 60

\* delay = min(self.RECONNECT_BACKOFF_BASE ** reconnect_attempts,
\*             self.RECONNECT_MAX_DELAY)
Delay(attempts) ==
    IF RECONNECT_BACKOFF_BASE ^ attempts < RECONNECT_MAX_DELAY
    THEN RECONNECT_BACKOFF_BASE ^ attempts
    ELSE RECONNECT_MAX_DELAY

LinkInit ==
    /\ run_pc = "connect"
    /\ shutdown_event = FALSE
    /\ git_sync_complete = FALSE
    /\ reconnect_attempts = 0
    /\ connects = 0
    /\ commands = 0
    /\ tasks = <<>>
    /\ background_tasks = {}
    /\ heartbeat_task = "none"
    /\ heartbeats = 0
    /\ sessions_created = 0
    /\ connect_outcome = "none"
    /\ opencode_session_id \in {Null, "ses_0"}     \* _load_session_id
    /\ stop_requests = 0
    /\ ws = "none"
    /\ sent = <<>>
    /\ sentMeta = <<>>

\* await self._send_event(e) for each e of events, by task tid (0: the loops)
LinkSend(events, tid) ==
    /\ sent' = SendEvents(sent, ws, events)
    /\ sentMeta' = IF ws = "open"
                   THEN sentMeta \o Repeat(Len(events), [conn |-> connects, task |-> tid])
                   ELSE sentMeta

\* faulty variant: only the heartbeat task is cancelled
EndConnection_KeepsPrompts(returned) ==
    /\ heartbeat_task' = IF heartbeat_task = "sleeping" THEN "cancelled"
                         ELSE heartbeat_task
    /\ tasks' = tasks
    /\ background_tasks' = {}
    /\ ws' = "none"
    /\ LET attempts == IF returned THEN 0 ELSE reconnect_attempts
       IN  IF shutdown_event
           THEN /\ run_pc' = "exit"
                /\ reconnect_attempts' = attempts
           ELSE /\ run_pc' = "sleep"
                /\ reconnect_attempts' = attempts + 1

\* faulty variant: run() does not test the shutdown flag before the backoff
EndConnection_SleepsAfterShutdown(returned) ==
    /\ heartbeat_task' = IF heartbeat_task = "sleeping" THEN "cancelled"
                         ELSE heartbeat_task
    /\ tasks' = [t \in DOMAIN tasks |->
                    IF t \in background_tasks /\ tasks[t].pc \in Running
                    THEN [tasks[t] EXCEPT !.pc = "cancelling"]
                    ELSE tasks[t]]
    /\ background_tasks' = {}
    /\ ws' = "none"
    /\ LET attempts == IF returned THEN 0 ELSE reconnect_attempts
       IN  /\ run_pc' = "sleep"
           /\ reconnect_attempts' = attempts + 1

\* the finally of _connect_and_run, then run() up to its next await:
\* returned tells whether _connect_and_run returned or raised ConnectionClosed
EndConnection(returned) ==
    /\ heartbeat_task' = IF heartbeat_task = "sleeping" THEN "cancelled"
                         ELSE heartbeat_task
    /\ tasks' = [t \in DOMAIN tasks |->
                    IF t \in background_tasks /\ tasks[t].pc \in Running
                    THEN [tasks[t] EXCEPT !.pc = "cancelling"]
                    ELSE tasks[t]]
    /\ background_tasks' = {}
    /\ ws' = "none"
    /\ LET attempts == IF returned THEN 0 ELSE reconnect_attempts
       IN  IF shutdown_event
           THEN /\ run_pc' = "exit"
                /\ reconnect_attempts' = attempts
           ELSE /\ run_pc' = "sleep"
                /\ reconnect_attempts' = attempts + 1

\* faulty variant: a rejected handshake is retried like any other failure
Connect_RetriesRejection ==
    /\ run_pc = "connect"
    /\ connects < MaxConnects
    /\ connects' = connects + 1
    /\ \E outcome \in ConnectOutcomes :
       /\ connect_outcome' = outcome
       /\ CASE outcome = "ok" ->
                /\ ws' = "open"
                /\ sent' = SendEvents(sent, "open",
                               << [type |-> "ready", sandboxId |-> SANDBOX_ID,
                                   opencodeSessionId |-> opencode_session_id] >>)
                /\ sentMeta' = Append(sentMeta, [conn |-> connects + 1, task |-> 0])
                /\ heartbeat_task' = "sleeping"
                /\ background_tasks' = {}
                /\ run_pc' = "serve"
                /\ UNCHANGED <<shutdown_event, reconnect_attempts>>
           [] OTHER ->
                /\ reconnect_attempts' = reconnect_attempts + 1
                /\ run_pc' = "sleep"
                /\ UNCHANGED <<ws, sent, sentMeta, heartbeat_task, background_tasks,
                               shutdown_event>>
    /\ UNCHANGED <<git_sync_complete, commands, tasks, heartbeats, sessions_created,
                   opencode_session_id, stop_requests>>
    /\ UNCHANGED <<psVars, idVars, timerVars, supVars, callVars>>

\* faulty variant: ready is sent on the first connection only
Connect_ReadyOnlyOnce ==
    /\ run_pc = "connect"
    /\ connects < MaxConnects
    /\ connects' = connects + 1
    /\ \E outcome \in ConnectOutcomes :
       /\ connect_outcome' = outcome
       /\ CASE outcome = "ok" ->
                /\ ws' = "open"
                /\ sent' = IF connects = 0
                           THEN SendEvents(sent, "open",
                                    << [type |-> "ready", sandboxId |-> SANDBOX_ID,
                                        opencodeSessionId |-> opencode_session_id] >>)
                           ELSE sent
                /\ sentMeta' = IF connects = 0
                               THEN Append(sentMeta, [conn |-> connects + 1, task |-> 0])
                               ELSE sentMeta
                /\ heartbeat_task' = "sleeping"
                /\ background_tasks' = {}
                /\ run_pc' = "serve"
                /\ UNCHANGED <<shutdown_event, reconnect_attempts>>
           [] outcome \in FatalStatuses ->
                /\ shutdown_event' = TRUE
                /\ run_pc' = "exit"
                /\ UNCHANGED <<ws, sent, sentMeta, heartbeat_task, background_tasks,
                               reconnect_attempts>>
           [] OTHER ->
                /\ reconnect_attempts' = reconnect_attempts + 1
                /\ run_pc' = "sleep"
                /\ UNCHANGED <<ws, sent, sentMeta, heartbeat_task, background_tasks,
                               shutdown_event>>
    /\ UNCHANGED <<git_sync_complete, commands, tasks, heartbeats, sessions_created,
                   opencode_session_id, stop_requests>>
    /\ UNCHANGED <<psVars, idVars, timerVars, supVars, callVars>>

\* websockets.connect and, on success, the ready event and the heartbeat task
Connect ==
    /\ run_pc = "connect"
    /\ connects < MaxConnects
    /\ connects' = connects + 1
    /\ \E outcome \in ConnectOutcomes :
       /\ connect_outcome' = outcome
       /\ CASE outcome = "ok" ->
                /\ ws' = "open"
                /\ sent' = SendEvents(sent, "open",
                               << [type |-> "ready", sandboxId |-> SANDBOX_ID,
                                   opencodeSessionId |-> opencode_session_id] >>)
                /\ sentMeta' = Append(sentMeta, [conn |-> connects + 1, task |-> 0])
                /\ heartbeat_task' = "sleeping"
                /\ background_tasks' = {}
                /\ run_pc' = "serve"
                /\ UNCHANGED <<shutdown_event, reconnect_attempts>>
           [] outcome \in FatalStatuses ->
                /\ shutdown_event' = TRUE
                /\ run_pc' = "exit"
                /\ UNCHANGED <<ws, sent, sentMeta, heartbeat_task, background_tasks,
                               reconnect_attempts>>
           [] OTHER ->
                /\ reconnect_attempts' = reconnect_attempts + 1
                /\ run_pc' = "sleep"
                /\ UNCHANGED <<ws, sent, sentMeta, heartbeat_task, background_tasks,
                               shutdown_event>>
    /\ UNCHANGED <<git_sync_complete, commands, tasks, heartbeats, sessions_created,
                   opencode_session_id, stop_requests>>
    /\ UNCHANGED <<psVars, idVars, timerVars, supVars, callVars>>

\* faulty variant: a new prompt replaces the in-flight set
RecvCommand_ForgetsInFlight ==
    /\ run_pc = "serve"
    /\ ws = "open"
    /\ commands < MaxCommands
    /\ commands' = commands + 1
    /\ IF shutdown_event
       THEN /\ EndConnection(TRUE)
            /\ UNCHANGED <<shutdown_event, git_sync_complete, stop_requests,
                           sent, sentMeta>>
       ELSE \E cmd_type \in CommandTypes :
              /\ cmd_type = "prompt" => Len(tasks) < MaxPrompts
              /\ tasks' = IF cmd_type = "prompt"
                          THEN Append(tasks, [pc |-> "created",
                                              mid |-> PromptMessageId(Len(tasks) + 1),
                                              conn |-> connects, tokens |-> 0])
                          ELSE tasks
              /\ background_tasks' = IF cmd_type = "prompt"
                                     THEN {Len(tasks) + 1}
                                     ELSE background_tasks
              /\ stop_requests' = IF cmd_type = "stop" /\ opencode_session_id # Null
                                  THEN stop_requests + 1 ELSE stop_requests
              /\ shutdown_event' = (shutdown_event \/ cmd_type = "shutdown")
              /\ git_sync_complete' = (git_sync_complete \/ cmd_type = "git_sync_complete")
              /\ CASE cmd_type = "snapshot" ->
                        LinkSend(<< [type |-> "snapshot_ready",
                                     opencodeSessionId |-> opencode_session_id] >>, 0)
                   [] cmd_type = "push" ->
                        \E result \in {"push_complete", "push_error"} :
                            LinkSend(<< [type |-> result, branchName |-> "b"] >>, 0)
                   [] OTHER -> UNCHANGED <<sent, sentMeta>>
              /\ UNCHANGED <<run_pc, reconnect_attempts, heartbeat_task, ws>>
    /\ UNCHANGED <<connects, heartbeats, sessions_created, opencode_session_id>>
    /\ UNCHANGED <<connect_outcome, psVars, idVars, timerVars, supVars, callVars>>

\* one message of  async for message in ws : the shutdown test, json.loads,
\* _handle_command
RecvCommand ==
    /\ run_pc = "serve"
    /\ ws = "open"
    /\ commands < MaxCommands
    /\ commands' = commands + 1
    /\ IF shutdown_event
       THEN /\ EndConnection(TRUE)
            /\ UNCHANGED <<shutdown_event, git_sync_complete, stop_requests,
                           sent, sentMeta>>
       ELSE \E cmd_type \in CommandTypes :
              /\ cmd_type = "prompt" => Len(tasks) < MaxPrompts
              /\ tasks' = IF cmd_type = "prompt"
                          THEN Append(tasks, [pc |-> "created",
                                              mid |-> PromptMessageId(Len(tasks) + 1),
                                              conn |-> connects, tokens |-> 0])
                          ELSE tasks
              /\ background_tasks' = IF cmd_type = "prompt"
                                     THEN background_tasks \cup {Len(tasks) + 1}
                                     ELSE background_tasks
              /\ stop_requests' = IF cmd_type = "stop" /\ opencode_session_id # Null
                                  THEN stop_requests + 1 ELSE stop_requests
              /\ shutdown_event' = (shutdown_event \/ cmd_type = "shutdown")
              /\ git_sync_complete' = (git_sync_complete \/ cmd_type = "git_sync_complete")
              /\ CASE cmd_type = "snapshot" ->
                        LinkSend(<< [type |-> "snapshot_ready",
                                     opencodeSessionId |-> opencode_session_id] >>, 0)
                   [] cmd_type = "push" ->
                        \E result \in {"push_complete", "push_error"} :
                            LinkSend(<< [type |-> result, branchName |-> "b"] >>, 0)
                   [] OTHER -> UNCHANGED <<sent, sentMeta>>
              /\ UNCHANGED <<run_pc, reconnect_attempts, heartbeat_task, ws>>
    /\ UNCHANGED <<connects, heartbeats, sessions_created, opencode_session_id>>
    /\ UNCHANGED <<connect_outcome, psVars, idVars, timerVars, supVars, callVars>>

\* the link goes down: a close frame from the control plane, or the
\* transport fails
LinkCloses ==
    /\ run_pc = "serve"
    /\ ws = "open"
    /\ \E how \in {"closed_ok", "closed_error"} : ws' = how
    /\ UNCHANGED <<run_pc, shutdown_event, git_sync_complete, reconnect_attempts,
                   connects, commands, tasks, background_tasks, heartbeat_task,
                   heartbeats, sessions_created, opencode_session_id,
                   stop_requests, sent, sentMeta>>
    /\ UNCHANGED <<connect_outcome, psVars, idVars, timerVars, supVars, callVars>>

\* async for message in ws  ends (clean close) or raises ConnectionClosed
ReadLoopEnds ==
    /\ run_pc = "serve"
    /\ ws \in {"closed_ok", "closed_error"}
    /\ EndConnection(ws = "closed_ok")
    /\ UNCHANGED <<shutdown_event, git_sync_complete, connects, commands,
                   heartbeats, sessions_created, opencode_session_id,
                   stop_requests, sent, sentMeta>>
    /\ UNCHANGED <<connect_outcome, psVars, idVars, timerVars, supVars, callVars>>

\* asyncio.sleep(delay) returns; the test of the while loop of run().  The
\* delay is at least RECONNECT_BACKOFF_BASE seconds: the done callbacks of
\* the tasks that ended before the sleep began are ready in the event loop
\* and have run by then.
SleepDone ==
    /\ run_pc = "sleep"
    /\ \A t \in DOMAIN tasks : tasks[t].pc \notin {"cancelling", "raised"}
    /\ run_pc' = IF shutdown_event THEN "exit" ELSE "connect"
    /\ UNCHANGED <<shutdown_event, git_sync_complete, reconnect_attempts,
                   connects, commands, tasks, background_tasks, heartbeat_task,
                   heartbeats, sessions_created, opencode_session_id,
                   stop_requests, ws, sent, sentMeta>>
    /\ UNCHANGED <<connect_outcome, psVars, idVars, timerVars, supVars, callVars>>

\* _heartbeat_loop: the sleep returns, the event, the test of the while loop
Heartbeat ==
    /\ heartbeat_task = "sleeping"
    /\ heartbeats < MaxHeartbeats
    /\ heartbeats' = heartbeats + 1
    /\ LinkSend(<< [type |-> "heartbeat", sandboxId |-> SANDBOX_ID,
                    status |-> "ready", timestamp |-> Now] >>, 0)
    /\ heartbeat_task' = IF shutdown_event THEN "done" ELSE "sleeping"
    /\ UNCHANGED <<run_pc, shutdown_event, git_sync_complete, reconnect_attempts,
                   connects, commands, tasks, background_tasks, sessions_created,
                   opencode_session_id, stop_requests, ws>>
    /\ UNCHANGED <<connect_outcome, psVars, idVars, timerVars, supVars, callVars>>

LinkFrame ==
    UNCHANGED <<run_pc, shutdown_event, git_sync_complete, reconnect_attempts,
                connects, commands, heartbeat_task, heartbeats, stop_requests, ws>>

\* _handle_prompt starts: up to  if not self.opencode_session_id
TaskStart ==
    \E t \in DOMAIN tasks :
        /\ tasks[t].pc = "created"
        /\ tasks' = [tasks EXCEPT ![t].pc =
                        IF Falsy(opencode_session_id) THEN "creating" ELSE "stream"]
        /\ UNCHANGED <<background_tasks, sessions_created, opencode_session_id,
                       sent, sentMeta>>
        /\ LinkFrame
        /\ UNCHANGED <<connect_outcome, psVars, idVars, timerVars, supVars, callVars>>

\* _create_opencode_session: the POST returns
SessionCreated ==
    \E t \in DOMAIN tasks, ok \in BOOLEAN :
        /\ tasks[t].pc = "creating"
        /\ IF ok
           THEN /\ opencode_session_id' = CreatedSession(sessions_created + 1)
                /\ sessions_created' = sessions_created + 1
                /\ tasks' = [tasks EXCEPT ![t].pc = "stream"]
                /\ UNCHANGED background_tasks
           ELSE \* raise_for_status: the exception leaves _handle_prompt
                /\ tasks' = [tasks EXCEPT ![t].pc = "raised"]
                /\ background_tasks' = background_tasks \ {t}
                /\ UNCHANGED <<opencode_session_id, sessions_created>>
        /\ UNCHANGED <<sent, sentMeta>>
        /\ LinkFrame
        /\ UNCHANGED <<connect_outcome, psVars, idVars, timerVars, supVars, callVars>>

\* async for event in self._stream_opencode_response_sse(...): one event
TaskEmit ==
    \E t \in DOMAIN tasks :
        /\ tasks[t].pc = "stream"
        /\ tasks[t].tokens < MaxTokens
        /\ tasks' = [tasks EXCEPT ![t].tokens = @ + 1]
        /\ LinkSend(<< [type |-> "token", content |-> "ab",
                        messageId |-> tasks[t].mid] >>, t)
        /\ UNCHANGED <<background_tasks, sessions_created, opencode_session_id>>
        /\ LinkFrame
        /\ UNCHANGED <<connect_outcome, psVars, idVars, timerVars, supVars, callVars>>

\* the generator returns or raises: execution_complete of _handle_prompt
TaskFinish ==
    \E t \in DOMAIN tasks, success \in BOOLEAN :
        /\ tasks[t].pc = "stream"
        /\ tasks' = [tasks EXCEPT ![t].pc = "done"]
        /\ background_tasks' = background_tasks \ {t}
        /\ LinkSend(<< ExecutionComplete(tasks[t].mid, success, "SSE read error") >>, t)
        /\ UNCHANGED <<sessions_created, opencode_session_id>>
        /\ LinkFrame
        /\ UNCHANGED <<connect_outcome, psVars, idVars, timerVars, supVars, callVars>>

\* handle_task_exception: the task ended cancelled or with an exception
TaskReport ==
    \E t \in DOMAIN tasks :
        /\ tasks[t].pc \in {"cancelling", "raised"}
        /\ tasks' = [tasks EXCEPT ![t].pc =
                        IF tasks[t].pc = "cancelling" THEN "cancelled" ELSE "failed"]
        /\ LinkSend(<< ExecutionComplete(tasks[t].mid, FALSE,
                           IF tasks[t].pc = "cancelling" THEN "Task was cancelled"
                           ELSE "session creation failed") >>, t)
        /\ UNCHANGED <<background_tasks, sessions_created, opencode_session_id>>
        /\ LinkFrame
        /\ UNCHANGED <<connect_outcome, psVars, idVars, timerVars, supVars, callVars>>

LinkNext ==
    \/ Connect
    \/ RecvCommand
    \/ LinkCloses
    \/ ReadLoopEnds
    \/ SleepDone
    \/ Heartbeat
    \/ TaskStart
    \/ SessionCreated
    \/ TaskEmit
    \/ TaskFinish
    \/ TaskReport

LinkSpecInit == LinkInit /\ PromptIdle /\ IdIdle /\ TimerIdle /\ SupIdle /\ CallIdle

LinkSpec == LinkSpecInit /\ [][LinkNext]_vars

\* the event loop runs every callback and task that is ready: the steps of
\* the bridge are taken when they stay possible.  The arrival of a message
\* and the end of the link are up to the control plane and the network
\* (RecvCommand, LinkCloses): nothing makes them happen.
LinkFairness ==
    /\ WF_vars(Connect)
    /\ WF_vars(ReadLoopEnds)
    /\ WF_vars(SleepDone)
    /\ WF_vars(Heartbeat)
    /\ WF_vars(TaskStart)
    /\ WF_vars(SessionCreated)
    /\ WF_vars(TaskEmit)
    /\ WF_vars(TaskFinish)
    /\ WF_vars(TaskReport)

LinkFairSpec == LinkSpecInit /\ [][LinkNext]_vars /\ LinkFairness

(***************************************************************************)
(* Properties of the prompt session (Spec)                                 *)
(***************************************************************************)
Indices(t) == { i \in 1..Len(sent) : sent[i].type = t }

PromptEventTypes ==
    {"token", "tool_call", "step_start", "step_finish", "error", "execution_complete"}

RECURSIVE SumLen(_, _)
SumLen(d, keys) ==
    IF keys = {} THEN 0
    ELSE LET k == CHOOSE x \in keys : TRUE
         IN  Len(d[k]) + SumLen(d, keys \ {k})

PendingCount == SumLen(pending_parts, DOMAIN pending_parts)

\* C2: after a session.error for the bridge's session the prompt has sent
\* exactly one error event with the control-plane messageId, nothing more is
\* translated, and its terminal event is execution_complete with success = FALSE.
C2_SessionErrorFailsPrompt ==
    termination = "session_error" =>
        /\ pc = "done"
        /\ Cardinality(Indices("error")) = 1
        /\ \A i \in Indices("error") : sent[i].messageId = message_id
        /\ sent[Len(sent)].type = "execution_complete"
        /\ sent[Len(sent)].success = FALSE

\* C4: for every part id, the contents of the successive token events of the
\* prompt never get shorter, final-state fetch tokens included.
C4_TokenLengthsMonotone ==
    \A i, j \in Indices("token") :
        (i < j /\ sentMeta[i].part = sentMeta[j].part)
            => Len(sent[i].content) <= Len(sent[j].content)

\* C6: within one prompt no two tool_call events carry the same
\* (callId, status) pair.
C6_ToolCallOncePerState ==
    \A i, j \in Indices("tool_call") :
        (sent[i].callId = sent[j].callId /\ sent[i].status = sent[j].status)
            => i = j

\* C6 witness: a tool part whose (callID, status) had been emitted was
\* handled again and suppressed.
C6_Witness ==
    /\ last.dedup
    /\ Indices("tool_call") # {}

C8_ControlPlaneMessageId ==
    \A i \in 1..Len(sent) :
        sent[i].type \in PromptEventTypes =>
            /\ sent[i].messageId = message_id
            /\ sent[i].messageId # opencode_message_id
            /\ sent[i].messageId \notin MsgIds

\* C8 witness: a finished prompt that sent a tool_call and another part
\* event stemming from assistant messages, then execution_complete.
C8_Witness ==
    /\ pc = "done"
    /\ Indices("tool_call") # {}
    /\ Indices("token") \cup Indices("step_start") \cup Indices("step_finish") # {}
    /\ \A i \in Indices("tool_call") : sentMeta[i].msg \in MsgIds
    /\ sent[Len(sent)].type = "execution_complete"

PartEventIndices == { i \in 1..Len(sent) : sentMeta[i].origin = "sse" }

\* parts that produce an event whenever they are handled
AlwaysEmits(item) ==
    \/ Get(item.part, "type", "") \in {"step-start", "step-finish"}
    \/ Get(item.part, "type", "") = "text" /\ ~Falsy(item.delta)

\* the part events sent so far respect admission and arrival order
C10_Order ==
    /\ \A i \in PartEventIndices :
          /\ sentMeta[i].msg \in DOMAIN admittedAt
          /\ sentMeta[i].msg \in allowed_assistant_msg_ids
          /\ sentMeta[i].at = IF sentMeta[i].src < admittedAt[sentMeta[i].msg]
                              THEN admittedAt[sentMeta[i].msg]
                              ELSE sentMeta[i].src
    /\ \A i, j \in PartEventIndices :
          i < j => \/ sentMeta[i].at < sentMeta[j].at
                   \/ /\ sentMeta[i].at = sentMeta[j].at
                      /\ sentMeta[i].src <= sentMeta[j].src
    /\ (DOMAIN pending_parts) \cap allowed_assistant_msg_ids = {}

\* the step that admits a message sends every part buffered under it
C10_FlushOnAdmission ==
    \A m \in MsgIds :
        (m \notin allowed_assistant_msg_ids /\ m \in allowed_assistant_msg_ids') =>
            \A k \in 1..Len(Get(pending_parts, m, <<>>)) :
                AlwaysEmits(pending_parts[m][k]) =>
                    \E i \in (Len(sent) + 1)..Len(sent') :
                        /\ sentMeta'[i].src = pending_parts[m][k].src
                        /\ sentMeta'[i].at = nEvents'

\* C10: a part of an unadmitted message is not sent before the admission;
\* the admitting step sends every buffered part, in arrival order, before any
\* later SSE event is translated; otherwise events follow the SSE order.
C10_AdmissionBuffering ==
    [][ C10_Order' /\ C10_FlushOnAdmission ]_vars

\* C10 witness: two parts buffered under one message were sent by the step
\* that admitted it.
C10_Witness ==
    \E i, j \in PartEventIndices :
        /\ i < j
        /\ sentMeta[i].at = sentMeta[j].at
        /\ sentMeta[i].src < sentMeta[j].src
        /\ sentMeta[j].src < sentMeta[j].at

(***************************************************************************)
(* Properties of the identifiers (IdSpec)                                  *)
(***************************************************************************)
\* C5: of any two ids that ascending returned in this order (here: for the
\* same prefix), the later one is strictly greater as a string, whatever the
\* clock read (the same millisecond or a later one) and whatever the counter.
C5_IdsAscending ==
    \A i, j \in 1..Len(generated) :
        (i < j /\ generated[i].prefix = generated[j].prefix)
            => LexLess(generated[i].id, generated[j].id)

(***************************************************************************)
(* Properties of the link (LinkSpec)                                       *)
(***************************************************************************)
Ended == {"done", "failed", "cancelled"}

CompletionsOf(mid) ==
    { i \in 1..Len(sent) :
        sent[i].type = "execution_complete" /\ sent[i].messageId = mid }

\* C1: whatever way a prompt ended (idle, error, exception before streaming,
\* cancellation), the link carries exactly one execution_complete with the
\* prompt's messageId, and no event with that messageId after it.
C1_ExactlyOneCompletion ==
    \A t \in DOMAIN tasks :
        tasks[t].pc \in Ended =>
            /\ Cardinality(CompletionsOf(tasks[t].mid)) = 1
            /\ \A i \in CompletionsOf(tasks[t].mid) :
                 \A j \in (i + 1)..Len(sent) :
                     "messageId" \in DOMAIN sent[j] => sent[j].messageId # tasks[t].mid

\* C3: every prompt task cancelled at the end of a connection has exactly one
\* execution_complete{success: false, error: "Task was cancelled"} with its
\* messageId on the link.
C3_CancelledPromptReported ==
    \A t \in DOMAIN tasks :
        tasks[t].pc = "cancelled" =>
            Cardinality({ i \in CompletionsOf(tasks[t].mid) :
                            /\ sent[i].success = FALSE
                            /\ sent[i].error = "Task was cancelled" }) = 1

(***************************************************************************)
(* TimerSpec: the two deadlines of _stream_opencode_response_sse.  Times   *)
(* are seconds.  Time passes while the prompt task awaits a request to the *)
(* agent server or the next chunk of the stream; everything else is        *)
(* instantaneous.                                                          *)
(***************************************************************************)
SSE_INACTIVITY_TIMEOUT == 120
SSE_INACTIVITY_TIMEOUT_MIN == 5
SSE_INACTIVITY_TIMEOUT_MAX == 3600
OPENCODE_REQUEST_TIMEOUT == 10
PROMPT_MAX_DURATION == 5400

Horizon == 5600                     \* chunks are read up to this time
SlowRequest == 6                    \* seconds a slow request takes
ShortGap == 3                       \* seconds between two chunks
MediumGap == 100
LongGap == 3000

\* the windows _resolve_timeout_seconds can return: the default and the ends
\* of the accepted range
Windows ==
    {SSE_INACTIVITY_TIMEOUT_MIN, SSE_INACTIVITY_TIMEOUT, SSE_INACTIVITY_TIMEOUT_MAX}

\* how long a request to the agent server takes: no time, or SlowRequest
\* seconds, which is within the timeout of the request
RequestDurations == {0} \cup { d \in {SlowRequest} : d < OPENCODE_REQUEST_TIMEOUT }

\* times between two chunks of the stream
Gaps == {ShortGap, MediumGap, LongGap}

\* what a chunk holds: no complete event, or one event of the given kind
ChunkKinds == {"partial", "heartbeat", "foreign", "own", "idle", "error"}

\* asyncio.timeout_at: an await that lasts d seconds is interrupted when
\* the deadline is reached before it completes
Expires(d) == clock + d >= deadline

\* except TimeoutError: the prompt fails with the inactivity error
TimedRecovery(where) ==
    /\ clock' = deadline
    /\ expired_in' = where
    /\ t_outcome' = "inactivity"
    /\ t_pc' = "done"
    /\ UNCHANGED <<deadline, prompt_start, sse_inactivity_timeout, last_chunk, max_gap>>

TimerInit ==
    /\ t_pc = "connect"
    /\ clock = 0
    /\ sse_inactivity_timeout \in Windows
    /\ deadline = clock + sse_inactivity_timeout
    /\ prompt_start = 0
    /\ last_chunk = -1
    /\ max_gap = 0
    /\ expired_in = ""
    /\ t_outcome = ""

\* async with self.http_client.stream("GET", sse_url, ...), status 200
TimedConnect ==
    /\ t_pc = "connect"
    /\ \E d \in RequestDurations :
         IF Expires(d)
         THEN TimedRecovery("connect")
         ELSE /\ clock' = clock + d
              /\ prompt_start' = clock + d
              /\ t_pc' = "post"
              /\ UNCHANGED <<deadline, sse_inactivity_timeout, last_chunk, max_gap,
                             expired_in, t_outcome>>
    /\ UNCHANGED <<psVars, sharedVars, idVars, linkVars, supVars, callVars>>

\* await self.http_client.post(async_url, ...), status 200 or 204
TimedPost ==
    /\ t_pc = "post"
    /\ \E d \in RequestDurations :
         IF Expires(d)
         THEN TimedRecovery("post")
         ELSE /\ clock' = clock + d
              /\ t_pc' = "read"
              /\ UNCHANGED <<deadline, prompt_start, sse_inactivity_timeout,
                             last_chunk, max_gap, expired_in, t_outcome>>
    /\ UNCHANGED <<psVars, sharedVars, idVars, linkVars, supVars, callVars>>

\* timeout_ctx.reschedule(loop.time() + self.sse_inactivity_timeout)
Reschedule(at) == at + sse_inactivity_timeout

\* _parse_sse_stream reads one chunk, and the loop of
\* _stream_opencode_response_sse handles the event it completes
TimedChunk ==
    /\ t_pc = "read"
    /\ \E gap \in Gaps, kind \in ChunkKinds :
         IF Expires(gap)
         THEN TimedRecovery("read")
         ELSE /\ clock + gap <= Horizon
              /\ clock' = clock + gap
              /\ deadline' = Reschedule(clock + gap)
              /\ last_chunk' = clock + gap
              /\ max_gap' = IF last_chunk >= 0 /\ clock + gap - last_chunk > max_gap
                            THEN clock + gap - last_chunk
                            ELSE max_gap
              /\ t_pc' = CASE kind = "partial" -> "read"
                           [] kind = "idle" -> "fetch"
                           [] kind = "error" -> "done"
                           [] OTHER -> "check"
              /\ t_outcome' = IF kind = "error" THEN "session_error" ELSE ""
              /\ UNCHANGED <<prompt_start, sse_inactivity_timeout, expired_in>>
    /\ UNCHANGED <<psVars, sharedVars, idVars, linkVars, supVars, callVars>>

\* session.idle of the prompt: _fetch_final_message_state inside the
\* timeout context, then return
TimedFetch ==
    /\ t_pc = "fetch"
    /\ \E d \in RequestDurations :
         IF Expires(d)
         THEN TimedRecovery("fetch")
         ELSE /\ clock' = clock + d
              /\ t_outcome' = "idle"
              /\ t_pc' = "done"
              /\ UNCHANGED <<deadline, prompt_start, sse_inactivity_timeout,
                             last_chunk, max_gap, expired_in>>
    /\ UNCHANGED <<psVars, sharedVars, idVars, linkVars, supVars, callVars>>

\* if loop.time() > prompt_start + self.PROMPT_MAX_DURATION: stop, fetch,
\* raise; both requests are inside the timeout context
TimedCheck ==
    /\ t_pc = "check"
    /\ IF clock > prompt_start + PROMPT_MAX_DURATION
       THEN \E d1 \in RequestDurations, d2 \in RequestDurations :
                IF Expires(d1 + d2)
                THEN TimedRecovery("duration_recovery")
                ELSE /\ clock' = clock + d1 + d2
                     /\ t_outcome' = "duration"
                     /\ t_pc' = "done"
                     /\ UNCHANGED <<deadline, prompt_start, sse_inactivity_timeout,
                                    last_chunk, max_gap, expired_in>>
       ELSE /\ t_pc' = "read"
            /\ UNCHANGED <<clock, deadline, prompt_start, sse_inactivity_timeout,
                           last_chunk, max_gap, expired_in, t_outcome>>
    /\ UNCHANGED <<psVars, sharedVars, idVars, linkVars, supVars, callVars>>

TimerNext ==
    \/ TimedConnect
    \/ TimedPost
    \/ TimedChunk
    \/ TimedFetch
    \/ TimedCheck

TimerSpecInit == TimerInit /\ PromptIdle /\ SharedIdle /\ IdIdle /\ LinkIdle /\ SupIdle /\ CallIdle

TimerSpec == TimerSpecInit /\ [][TimerNext]_vars

(***************************************************************************)
(* SupSpec: SandboxSupervisor.monitor_processes.  The children end when    *)
(* they will; the loop polls their return codes once a second.             *)
(***************************************************************************)
MAX_RESTARTS == 5
BACKOFF_BASE == 2
BACKOFF_MAX == 60

Children == {"opencode", "bridge"}

\* run() has left its try block: it is about to call shutdown(), is in it
\* between the two children, or has returned
RunLeft == {"exit", "shutdown_opencode", "returned"}

\* faulty variant: the first restart waits BACKOFF_BASE ** 0 seconds
Backoff_FromZero(count) ==
    IF BACKOFF_BASE ^ (count - 1) < BACKOFF_MAX
    THEN BACKOFF_BASE ^ (count - 1)
    ELSE BACKOFF_MAX

\* delay = min(self.BACKOFF_BASE ** restart_count, self.BACKOFF_MAX)
Backoff(count) ==
    IF BACKOFF_BASE ^ count < BACKOFF_MAX THEN BACKOFF_BASE ^ count ELSE BACKOFF_MAX

\* run() begins, in one of the modes the environment selects
SupInit ==
    /\ monitor_pc = "git_sync"
    /\ opencode_process = "none"
    /\ bridge_process = "none"
    /\ opencode_ready = FALSE
    /\ start_mode \in [restored_from_snapshot : BOOLEAN, from_repo_image : BOOLEAN]
    /\ image_build_mode \in BOOLEAN
    /\ bridge_configured \in BOOLEAN
    /\ done = {}
    /\ healthy = 0
    /\ restart_count = 0
    /\ bridge_restart_count = 0
    /\ sup_shutdown_event = FALSE
    /\ delays = [c \in Children |-> <<>>]
    /\ starts = [c \in Children |-> 0]
    /\ fatal = <<>>

SupOthers ==
    UNCHANGED <<start_mode, image_build_mode, bridge_configured,
                psVars, sharedVars, idVars, linkVars, timerVars, callVars>>

MonitorFrame == UNCHANGED <<opencode_ready, done, healthy>>

\* processes of a child created so far, the first one and the restarts
Launched(child) == (IF child \in done THEN 1 ELSE 0) + starts[child]

\* faulty variant: the image build mode is not looked at
AfterSetup_ImageBuildIgnored == "start_opencode"

\* run() from the end of the setup script on
AfterSetup == IF image_build_mode THEN "image_wait" ELSE "start_opencode"

GitPreparations == {"quick_fetch", "incremental_sync", "full_sync"}

\* the Git preparation Phase 1 of run() calls: _quick_git_fetch,
\* _incremental_git_sync or perform_git_sync
GitPreparation ==
    IF start_mode.restored_from_snapshot THEN "quick_fetch"
    ELSE IF start_mode.from_repo_image THEN "incremental_sync"
    ELSE "full_sync"

\* if not restored_from_snapshot and not from_repo_image
SetupWanted ==
    ~start_mode.restored_from_snapshot /\ ~start_mode.from_repo_image

\* Phase 1 of run(): _quick_git_fetch, _incremental_git_sync or
\* perform_git_sync, which may fail (the startup goes on) or raise
GitSync ==
    /\ monitor_pc = "git_sync"
    /\ \E outcome \in (IF GitPreparation = "full_sync" THEN {"ok", "failed", "raised"}
                        ELSE {"ok", "failed"}) :
         IF outcome = "raised"
         THEN /\ fatal' = Append(fatal, [child |-> "supervisor", count |-> 0])
              /\ monitor_pc' = "exit"
              /\ done' = done \cup {GitPreparation}
         ELSE /\ done' = done \cup {"git", GitPreparation}
              /\ monitor_pc' = IF SetupWanted THEN "setup_script"
                               ELSE AfterSetup
              /\ UNCHANGED fatal
    /\ UNCHANGED <<opencode_process, bridge_process, restart_count,
                   bridge_restart_count, sup_shutdown_event, delays, starts,
                   opencode_ready, healthy>>
    /\ SupOthers

\* Phase 2 of run(): run_setup_script, whose failures are only logged
SetupScript ==
    /\ monitor_pc = "setup_script"
    /\ done' = done \cup {"setup"}
    /\ monitor_pc' = AfterSetup
    /\ UNCHANGED <<opencode_process, bridge_process, restart_count,
                   bridge_restart_count, sup_shutdown_event, delays, starts, fatal,
                   opencode_ready, healthy>>
    /\ SupOthers

\* image build mode: await self.shutdown_event.wait(), then return
ImageBuildWait ==
    /\ monitor_pc = "image_wait"
    /\ sup_shutdown_event
    /\ monitor_pc' = "exit"
    /\ UNCHANGED <<opencode_process, bridge_process, restart_count,
                   bridge_restart_count, sup_shutdown_event, delays, starts, fatal>>
    /\ MonitorFrame
    /\ SupOthers

\* the agent server process ends
OpencodeExits ==
    /\ monitor_pc \notin RunLeft
    /\ opencode_process = "running"
    /\ opencode_process' = "exited"
    /\ UNCHANGED <<monitor_pc, bridge_process, restart_count, bridge_restart_count,
                   sup_shutdown_event, delays, starts, fatal>>
    /\ MonitorFrame
    /\ SupOthers

\* the bridge process ends, with exit code 0 or not
BridgeExits ==
    /\ monitor_pc \notin RunLeft
    /\ bridge_process = "running"
    /\ \E code \in {"exited_0", "exited_1"} : bridge_process' = code
    /\ UNCHANGED <<monitor_pc, opencode_process, restart_count, bridge_restart_count,
                   sup_shutdown_event, delays, starts, fatal>>
    /\ MonitorFrame
    /\ SupOthers

\* _handle_signal: SIGTERM or SIGINT
HandleSignal ==
    /\ monitor_pc \notin RunLeft
    /\ ~sup_shutdown_event
    /\ sup_shutdown_event' = TRUE
    /\ UNCHANGED <<monitor_pc, opencode_process, bridge_process, restart_count,
                   bridge_restart_count, delays, starts, fatal>>
    /\ MonitorFrame
    /\ SupOthers

\* the test of the while loop and the check of the agent server, up to the
\* backoff sleep
CheckOpencode ==
    /\ monitor_pc = "check_opencode"
    /\ IF sup_shutdown_event
       THEN /\ monitor_pc' = "exit"
            /\ UNCHANGED <<restart_count, sup_shutdown_event, delays, fatal>>
       ELSE IF opencode_process = "exited"
       THEN /\ restart_count' = restart_count + 1
            /\ IF restart_count + 1 > MAX_RESTARTS
               THEN /\ fatal' = Append(fatal, [child |-> "opencode",
                                               count |-> restart_count + 1])
                    /\ sup_shutdown_event' = TRUE
                    /\ monitor_pc' = "exit"
                    /\ UNCHANGED delays
               ELSE /\ delays' = [delays EXCEPT !["opencode"] =
                                     Append(@, Backoff(restart_count + 1))]
                    /\ monitor_pc' = "sleep_opencode"
                    /\ UNCHANGED <<sup_shutdown_event, fatal>>
       ELSE /\ monitor_pc' = "check_bridge"
            /\ UNCHANGED <<restart_count, sup_shutdown_event, delays, fatal>>
    /\ UNCHANGED <<opencode_process, bridge_process, bridge_restart_count, starts>>
    /\ MonitorFrame
    /\ SupOthers

\* start_opencode up to the health check: in Phase 3 of run(), or in
\* monitor_processes after asyncio.sleep(delay) and opencode_ready.clear()
StartOpencode ==
    /\ monitor_pc \in {"start_opencode", "sleep_opencode"}
    /\ opencode_process' = "running"
    /\ IF monitor_pc = "start_opencode"
       THEN /\ done' = done \cup {"opencode"}
            /\ monitor_pc' = "startup_health"
            /\ UNCHANGED <<starts, opencode_ready>>
       ELSE /\ starts' = [starts EXCEPT !["opencode"] = @ + 1]
            /\ opencode_ready' = FALSE
            /\ monitor_pc' = "wait_for_health"
            /\ UNCHANGED done
    /\ UNCHANGED <<bridge_process, restart_count, bridge_restart_count,
                   sup_shutdown_event, delays, fatal, healthy>>
    /\ SupOthers

\* faulty variant: the ready flag is set when the process is created
WaitForHealth_NotAwaited ==
    /\ monitor_pc \in {"startup_health", "wait_for_health"}
    /\ opencode_ready' = TRUE
    /\ monitor_pc' = IF monitor_pc = "startup_health" THEN "start_bridge"
                     ELSE "check_bridge"
    /\ UNCHANGED <<fatal, healthy>>
    /\ UNCHANGED <<opencode_process, bridge_process, restart_count,
                   bridge_restart_count, sup_shutdown_event, delays, starts, done>>
    /\ SupOthers

\* _wait_for_health returns and opencode_ready is set, or it raises (no 200
\* within HEALTH_CHECK_TIMEOUT, or the shutdown flag): the exception leaves
\* start_opencode and run() reports it
WaitForHealth ==
    /\ monitor_pc \in {"startup_health", "wait_for_health"}
    /\ \E answered \in BOOLEAN :
         IF answered /\ ~sup_shutdown_event
         THEN /\ opencode_ready' = TRUE
              /\ healthy' = Launched("opencode")
              /\ monitor_pc' = IF monitor_pc = "startup_health" THEN "start_bridge"
                               ELSE "check_bridge"
              /\ UNCHANGED fatal
         ELSE /\ monitor_pc' = "exit"
              /\ fatal' = Append(fatal, [child |-> "opencode", count |-> 0])
              /\ UNCHANGED <<opencode_ready, healthy>>
    /\ UNCHANGED <<opencode_process, bridge_process, restart_count,
                   bridge_restart_count, sup_shutdown_event, delays, starts, done>>
    /\ SupOthers

\* faulty variant: any exit of the bridge is taken for a crash
CheckBridge_AnyExitIsCrash ==
    /\ monitor_pc = "check_bridge"
    /\ CASE bridge_process \in {"exited_0", "exited_1"} ->
              /\ bridge_restart_count' = bridge_restart_count + 1
              /\ IF bridge_restart_count + 1 > MAX_RESTARTS
                 THEN /\ fatal' = Append(fatal, [child |-> "bridge",
                                                 count |-> bridge_restart_count + 1])
                      /\ sup_shutdown_event' = TRUE
                      /\ monitor_pc' = "exit"
                      /\ UNCHANGED delays
                 ELSE /\ delays' = [delays EXCEPT !["bridge"] =
                                       Append(@, Backoff(bridge_restart_count + 1))]
                      /\ monitor_pc' = "sleep_bridge"
                      /\ UNCHANGED <<sup_shutdown_event, fatal>>
         [] OTHER ->
              /\ monitor_pc' = "sleep"
              /\ UNCHANGED <<bridge_restart_count, sup_shutdown_event, delays, fatal>>
    /\ UNCHANGED <<opencode_process, bridge_process, restart_count, starts>>
    /\ MonitorFrame
    /\ SupOthers

\* the check of the bridge, up to the backoff sleep
CheckBridge ==
    /\ monitor_pc = "check_bridge"
    /\ CASE bridge_process = "exited_0" ->
              /\ sup_shutdown_event' = TRUE
              /\ monitor_pc' = "exit"
              /\ UNCHANGED <<bridge_restart_count, delays, fatal>>
         [] bridge_process = "exited_1" ->
              /\ bridge_restart_count' = bridge_restart_count + 1
              /\ IF bridge_restart_count + 1 > MAX_RESTARTS
                 THEN /\ fatal' = Append(fatal, [child |-> "bridge",
                                                 count |-> bridge_restart_count + 1])
                      /\ sup_shutdown_event' = TRUE
                      /\ monitor_pc' = "exit"
                      /\ UNCHANGED delays
                 ELSE /\ delays' = [delays EXCEPT !["bridge"] =
                                       Append(@, Backoff(bridge_restart_count + 1))]
                      /\ monitor_pc' = "sleep_bridge"
                      /\ UNCHANGED <<sup_shutdown_event, fatal>>
         [] OTHER ->
              /\ monitor_pc' = "sleep"
              /\ UNCHANGED <<bridge_restart_count, sup_shutdown_event, delays, fatal>>
    /\ UNCHANGED <<opencode_process, bridge_process, restart_count, starts>>
    /\ MonitorFrame
    /\ SupOthers

\* start_bridge, in Phase 4 of run() or in monitor_processes after
\* asyncio.sleep(delay): it returns at once when the bridge is not
\* configured, waits for opencode_ready, creates the process, and the
\* process may have ended already when it looks after half a second
StartBridge ==
    /\ monitor_pc \in {"start_bridge", "sleep_bridge"}
    /\ IF ~bridge_configured
       THEN UNCHANGED <<bridge_process, starts, done>>
       ELSE /\ opencode_ready
            /\ \E state \in {"running", "exited_0", "exited_1"} :
                 bridge_process' = state
            /\ IF monitor_pc = "start_bridge"
               THEN /\ done' = done \cup {"bridge"}
                    /\ UNCHANGED starts
               ELSE /\ starts' = [starts EXCEPT !["bridge"] = @ + 1]
                    /\ UNCHANGED done
    /\ monitor_pc' = IF monitor_pc = "start_bridge" THEN "check_opencode" ELSE "sleep"
    /\ UNCHANGED <<opencode_process, restart_count, bridge_restart_count,
                   sup_shutdown_event, delays, fatal, opencode_ready, healthy>>
    /\ SupOthers

\* await asyncio.sleep(1.0) at the end of the loop body
MonitorSleep ==
    /\ monitor_pc = "sleep"
    /\ monitor_pc' = "check_opencode"
    /\ UNCHANGED <<opencode_process, bridge_process, restart_count,
                   bridge_restart_count, sup_shutdown_event, delays, starts, fatal>>
    /\ MonitorFrame
    /\ SupOthers

\* faulty variant: shutdown() leaves the bridge alone
ShutdownBridge_Skipped ==
    /\ monitor_pc = "exit"
    /\ monitor_pc' = "shutdown_opencode"
    /\ UNCHANGED <<opencode_process, bridge_process, restart_count,
                   bridge_restart_count, sup_shutdown_event, delays, starts, fatal>>
    /\ MonitorFrame
    /\ SupOthers

\* the finally of run(): shutdown(), first half: the bridge, if it runs, is
\* terminated and awaited for 5 s, and killed if it has not ended by then
ShutdownBridge ==
    /\ monitor_pc = "exit"
    /\ IF bridge_process = "running"
       THEN \E how \in {"terminated", "killed"} : bridge_process' = how
       ELSE UNCHANGED bridge_process
    /\ monitor_pc' = "shutdown_opencode"
    /\ UNCHANGED <<opencode_process, restart_count, bridge_restart_count,
                   sup_shutdown_event, delays, starts, fatal>>
    /\ MonitorFrame
    /\ SupOthers

\* shutdown(), second half: the same for the agent server, with 10 s; then
\* run() returns
ShutdownOpencode ==
    /\ monitor_pc = "shutdown_opencode"
    /\ IF opencode_process = "running"
       THEN \E how \in {"terminated", "killed"} : opencode_process' = how
       ELSE UNCHANGED opencode_process
    /\ monitor_pc' = "returned"
    /\ UNCHANGED <<bridge_process, restart_count, bridge_restart_count,
                   sup_shutdown_event, delays, starts, fatal>>
    /\ MonitorFrame
    /\ SupOthers

SupNext ==
    \/ GitSync
    \/ SetupScript
    \/ ImageBuildWait
    \/ OpencodeExits
    \/ BridgeExits
    \/ HandleSignal
    \/ CheckOpencode
    \/ StartOpencode
    \/ WaitForHealth
    \/ CheckBridge
    \/ StartBridge
    \/ MonitorSleep
    \/ ShutdownBridge
    \/ ShutdownOpencode

SupSpecInit == SupInit /\ PromptIdle /\ SharedIdle /\ IdIdle /\ LinkIdle /\ TimerIdle /\ CallIdle

SupSpec == SupSpecInit /\ [][SupNext]_vars

\* shutdown() is entered as soon as run() leaves its try block, and its two
\* waits are bounded (5 s and 10 s, then kill)
SupFairSpec == SupSpec /\ WF_vars(ShutdownBridge) /\ WF_vars(ShutdownOpencode)

(***************************************************************************)
(* The push command (PushSpec): one call of _handle_push.  call_args holds *)
(* the command, the environment, whether the work directory holds a        *)
(* repository, and what git push does; call_result holds the events handed *)
(* to _send_event and the URL git push was run with.                       *)
(***************************************************************************)
\* "" stands for a key that is absent or empty: Python tests them alike
Tokens     == {"", "command_token"}
EnvTokens  == {"", "env_token"}
Owners     == {"", "owner"}
EnvOwners  == {"", "env_owner"}
Names      == {"", "repo"}
EnvNames   == {"", "env_repo"}
Branches   == {"", "feature"}
\* git push: it exits 0, exits non-zero, or the subprocess cannot be run
GitPushOutcomes == {"exit_0", "exit_nonzero", "raises"}

\* a or b of Python, on strings
OrElse(a, b) == IF a # "" THEN a ELSE b

ResolveGithubToken_CommandOnly(cmd, env) == cmd.githubToken

ResolveGithubToken(cmd, env) ==
    IF cmd.githubToken # "" THEN cmd.githubToken
    ELSE IF env.GITHUB_APP_TOKEN # "" THEN env.GITHUB_APP_TOKEN
    ELSE ""

\* the events _handle_push sends and the URL it pushes to (<< >>: no push)
HandlePush(cmd, env, repo_found, git_push) ==
    LET branch_name  == cmd.branchName
        repo_owner   == OrElse(cmd.repoOwner, env.REPO_OWNER)
        repo_name    == OrElse(cmd.repoName, env.REPO_NAME)
        github_token == ResolveGithubToken(cmd, env)
        push_url     == << github_token, repo_owner, repo_name >>
    IN  IF ~repo_found
        THEN [events   |-> << [type |-> "push_error",
                               error |-> "No repository found"] >>,
              push_url |-> << >>]
        ELSE IF github_token = "" \/ repo_owner = "" \/ repo_name = ""
        THEN [events   |-> << [type |-> "push_error",
                               error |-> "Push failed - GitHub authentication token is required",
                               branchName |-> branch_name] >>,
              push_url |-> << >>]
        ELSE IF git_push = "raises"
        THEN [events   |-> << [type |-> "push_error",
                               error |-> "exception",
                               branchName |-> branch_name] >>,
              push_url |-> push_url]
        ELSE IF git_push # "exit_0"
        THEN [events   |-> << [type |-> "push_error",
                               error |-> "Push failed - authentication may be required",
                               branchName |-> branch_name] >>,
              push_url |-> push_url]
        ELSE [events   |-> << [type |-> "push_complete",
                               branchName |-> branch_name] >>,
              push_url |-> push_url]

PushInit ==
    /\ call_pc = "called"
    /\ call_args \in [cmd : [githubToken : Tokens, repoOwner : Owners,
                             repoName : Names, branchName : Branches],
                      env : [GITHUB_APP_TOKEN : EnvTokens, REPO_OWNER : EnvOwners,
                             REPO_NAME : EnvNames],
                      repo_found : BOOLEAN,
                      git_push : GitPushOutcomes]
    /\ call_result = << >>

HandlePushCall ==
    /\ call_pc = "called"
    /\ call_pc' = "returned"
    /\ call_result' = HandlePush(call_args.cmd, call_args.env,
                                 call_args.repo_found, call_args.git_push)
    /\ UNCHANGED <<call_args, psVars, sharedVars, idVars, linkVars, timerVars, supVars>>

PushNext == HandlePushCall

PushSpecInit == PushInit /\ PromptIdle /\ SharedIdle /\ IdIdle /\ LinkIdle /\ TimerIdle /\ SupIdle

PushSpec == PushSpecInit /\ [][PushNext]_vars

(***************************************************************************)
(* The Git identity of a prompt (IdentitySpec): the start of               *)
(* _handle_prompt and _configure_git_identity.  call_args holds the        *)
(* command's author, whether the work directory holds a repository, what   *)
(* git config does, and the identity the repository had before;            *)
(* call_result holds the identity passed on and the one the repository has *)
(* afterwards.                                                             *)
(***************************************************************************)
\* "none" stands for a key that is absent or null
AuthorNames  == {"none", "", "Jane Dev"}
AuthorEmails == {"none", "", "jane@example.com"}
\* user.name / user.email of the repository before the prompt
ConfiguredNames  == {"unset", "Earlier Author"}
ConfiguredEmails == {"unset", "earlier@example.com"}
\* git config: both calls exit 0, the first fails, or the second fails
GitConfigOutcomes == {"ok", "name_fails", "email_fails"}

\* truth value of an optional Python string
Truthy(s) == s \notin {"none", ""}

\* the repository's identity after _configure_git_identity(user)
ConfigureGitIdentity(user, repo_found, git_config, before) ==
    IF ~repo_found THEN before
    ELSE IF git_config = "name_fails" THEN before
    ELSE IF git_config = "email_fails" THEN [before EXCEPT !.name = user.name]
    ELSE [name |-> user.name, email |-> user.email]

\* the identity part of _handle_prompt: the GitUser handed to
\* _configure_git_identity (<< >>: it is not called) and the identity left
IdentityOfPrompt(author, repo_found, git_config, before) ==
    LET github_name  == author.githubName
        github_email == author.githubEmail
    IN  IF Truthy(github_name) /\ Truthy(github_email)
        THEN [user   |-> << [name |-> github_name, email |-> github_email] >>,
              config |-> ConfigureGitIdentity([name |-> github_name,
                                               email |-> github_email],
                                              repo_found, git_config, before)]
        ELSE [user |-> << >>, config |-> before]

IdentityInit ==
    /\ call_pc = "called"
    /\ call_args \in [author : [githubName : AuthorNames, githubEmail : AuthorEmails],
                      repo_found : BOOLEAN,
                      git_config : GitConfigOutcomes,
                      before : [name : ConfiguredNames, email : ConfiguredEmails]]
    /\ call_result = << >>

HandlePromptIdentity ==
    /\ call_pc = "called"
    /\ call_pc' = "returned"
    /\ call_result' = IdentityOfPrompt(call_args.author, call_args.repo_found,
                                       call_args.git_config, call_args.before)
    /\ UNCHANGED <<call_args, psVars, sharedVars, idVars, linkVars, timerVars, supVars>>

IdentityNext == HandlePromptIdentity

IdentitySpecInit == IdentityInit /\ PromptIdle /\ SharedIdle /\ IdIdle /\ LinkIdle /\ TimerIdle /\ SupIdle

IdentitySpec == IdentitySpecInit /\ [][IdentityNext]_vars

(***************************************************************************)
(* Sending one event (SendSpec): one call of _send_event.  call_args holds *)
(* the state of the link, the event, what the write does and the clock;    *)
(* call_result holds whether the call raised, the frames written, the      *)
(* event dict as the caller finds it afterwards, and the log.              *)
(***************************************************************************)
\* self.ws is None ("none") or a connection in one of the websockets states
WsStates == {"none", "CONNECTING", "OPEN", "CLOSING", "CLOSED"}
\* ws.send returns, or raises an Exception (the connection broke)
WriteOutcomes == {"ok", "raises"}
\* time.time() at the call, and a timestamp an event may carry already
SendTime == 20
EarlierTimestamp == 7
\* self.sandbox_id
SandboxId == "sandbox-1"

\* events as the callers build them: with or without a timestamp and a
\* sandboxId of their own
EventsToSend ==
    UNION { { [type |-> t],
              [type |-> t, timestamp |-> EarlierTimestamp],
              [type |-> t, sandboxId |-> "sandbox-0"],
              [type |-> t, sandboxId |-> "sandbox-0", timestamp |-> EarlierTimestamp],
              [type |-> t, messageId |-> "cp1"],
              [type |-> t, messageId |-> "cp1", timestamp |-> EarlierTimestamp] }
            : t \in {"token", "heartbeat", "execution_complete"} }

\* event["sandboxId"] = ...; event["timestamp"] = event.get("timestamp", now)
Stamped(event, now) ==
    LET timestamp == IF "timestamp" \in DOMAIN event THEN event.timestamp ELSE now
    IN  [k \in DOMAIN event \cup {"sandboxId", "timestamp"} |->
            IF k = "sandboxId" THEN SandboxId
            ELSE IF k = "timestamp" THEN timestamp
            ELSE event[k]]

SendEvent_Unguarded(ws_state, event, write, now) ==
    IF ws_state = "none"
    THEN [raised |-> FALSE, written |-> << >>, event |-> event,
          log |-> << "debug:bridge.send_failed" >>]
    ELSE IF ws_state # "OPEN"
    THEN [raised |-> FALSE, written |-> << >>, event |-> event,
          log |-> << "debug:bridge.send_failed" >>]
    ELSE IF write = "raises"
    THEN [raised |-> TRUE, written |-> << >>, event |-> Stamped(event, now),
          log |-> << >>]
    ELSE [raised |-> FALSE, written |-> << Stamped(event, now) >>,
          event |-> Stamped(event, now), log |-> << >>]

SendEvent(ws_state, event, write, now) ==
    IF ws_state = "none"
    THEN [raised |-> FALSE, written |-> << >>, event |-> event,
          log |-> << "debug:bridge.send_failed" >>]
    ELSE IF ws_state # "OPEN"
    THEN [raised |-> FALSE, written |-> << >>, event |-> event,
          log |-> << "debug:bridge.send_failed" >>]
    ELSE IF write = "raises"
    THEN [raised |-> FALSE, written |-> << >>, event |-> Stamped(event, now),
          log |-> << "error:bridge.send_error" >>]
    ELSE [raised |-> FALSE, written |-> << Stamped(event, now) >>,
          event |-> Stamped(event, now), log |-> << >>]

SendInit ==
    /\ call_pc = "called"
    /\ call_args \in [ws_state : WsStates, event : EventsToSend,
                      write : WriteOutcomes, now : {SendTime}]
    /\ call_result = << >>

SendEventCall ==
    /\ call_pc = "called"
    /\ call_pc' = "returned"
    /\ call_result' = SendEvent(call_args.ws_state, call_args.event,
                                call_args.write, call_args.now)
    /\ UNCHANGED <<call_args, psVars, sharedVars, idVars, linkVars, timerVars, supVars>>

SendNext == SendEventCall

SendSpecInit == SendInit /\ PromptIdle /\ SharedIdle /\ IdIdle /\ LinkIdle /\ TimerIdle /\ SupIdle

SendSpec == SendSpecInit /\ [][SendNext]_vars

(***************************************************************************)
(* The inactivity window from the environment (TimeoutSpec): one call of   *)
(* _resolve_timeout_seconds.  Durations are in milliseconds, so that       *)
(* values such as 4.999 are integers.  call_args holds the raw value of    *)
(* BRIDGE_SSE_INACTIVITY_TIMEOUT; call_result what the call returned, or   *)
(* that it raised.                                                         *)
(***************************************************************************)
Millis == 1000

\* decimal strings, by the value they denote: whole seconds and fractions
\* around the bounds and the default, and far from them
ConfiguredSeconds == {-1, 0, 1, 4, 5, 6, 60, 119, 120, 121, 1800, 3599, 3600,
                      3601, 7200, 10000}
ConfiguredFractions == {0, 1, 500, 999}

\* os.environ.get(name): unset, or a string.  "text" is a string float()
\* rejects; "nan", "inf" and "-inf" are strings it accepts
RawValues ==
    { [kind |-> k, ms |-> 0] : k \in {"unset", "empty", "text", "nan", "inf", "-inf"} }
    \cup { [kind |-> "decimal", ms |-> s * Millis + f] :
             s \in ConfiguredSeconds, f \in ConfiguredFractions }

\* float(raw): a finite number, an infinity, nan, or ValueError
ParseFloat(raw) ==
    CASE raw.kind = "decimal" -> [kind |-> "finite", ms |-> raw.ms]
      [] raw.kind \in {"nan", "inf", "-inf"} -> [kind |-> raw.kind, ms |-> 0]
      [] OTHER -> [kind |-> "ValueError", ms |-> 0]

\* value < bound and value > bound of Python floats: every comparison with
\* nan is false
LessThan(value, bound_ms) ==
    CASE value.kind = "finite" -> value.ms < bound_ms
      [] value.kind = "-inf" -> TRUE
      [] OTHER -> FALSE

GreaterThan(value, bound_ms) ==
    CASE value.kind = "finite" -> value.ms > bound_ms
      [] value.kind = "inf" -> TRUE
      [] OTHER -> FALSE

\* _resolve_timeout_seconds; int(value * 1000) of the last log record raises
\* ValueError on nan
ResolveTimeoutSeconds(raw, default, min_value, max_value) ==
    LET read == IF raw.kind \in {"unset", "empty"}
                THEN [kind |-> "finite", ms |-> default]
                ELSE IF ParseFloat(raw).kind = "ValueError"
                THEN [kind |-> "finite", ms |-> default]
                ELSE ParseFloat(raw)
        value == IF LessThan(read, min_value)
                 THEN [kind |-> "finite", ms |-> min_value]
                 ELSE IF GreaterThan(read, max_value)
                 THEN [kind |-> "finite", ms |-> max_value]
                 ELSE read
    IN  IF value.kind = "nan"
        THEN [raised |-> TRUE, ms |-> 0]
        ELSE [raised |-> FALSE, ms |-> value.ms]

TimeoutInit ==
    /\ call_pc = "called"
    /\ call_args \in [raw : RawValues]
    /\ call_result = << >>

\* AgentBridge.__init__: self.sse_inactivity_timeout = ...
ResolveTimeoutCall ==
    /\ call_pc = "called"
    /\ call_pc' = "returned"
    /\ call_result' = ResolveTimeoutSeconds(call_args.raw,
                                            SSE_INACTIVITY_TIMEOUT * Millis,
                                            SSE_INACTIVITY_TIMEOUT_MIN * Millis,
                                            SSE_INACTIVITY_TIMEOUT_MAX * Millis)
    /\ UNCHANGED <<call_args, psVars, sharedVars, idVars, linkVars, timerVars, supVars>>

TimeoutNext == ResolveTimeoutCall

TimeoutSpecInit == TimeoutInit /\ PromptIdle /\ SharedIdle /\ IdIdle /\ LinkIdle /\ TimerIdle /\ SupIdle

TimeoutSpec == TimeoutSpecInit /\ [][TimeoutNext]_vars

(***************************************************************************)
(* The final-state fetch run twice (FetchSpec): two calls of               *)
(* _fetch_final_message_state on the same answer of the agent server, the  *)
(* second with the cumulative_text the first left.  call_args holds the    *)
(* cumulative_text before the first call and the message list;             *)
(* call_result holds what each call returned.                              *)
(***************************************************************************)
FetchedTexts == {"", "ab", "abc", "abcde"}

FetchedPartsOf == { [type |-> "text", id |-> pid, text |-> t] :
                      pid \in {"p1", "p2"}, t \in FetchedTexts }

\* the parts of one fetched message: none, one or two
FetchedPartLists ==
    { << >> } \cup { << a >> : a \in FetchedPartsOf }
              \cup { << a, b >> : a, b \in FetchedPartsOf }

\* cumulative_text when the fetch starts: nothing sent, or text sent for p1
TextsSent == { EmptyDict, DictSet(EmptyDict, "p1", "ab"),
               DictSet(EmptyDict, "p1", "abcd") }

FetchInit ==
    /\ call_pc = "called"
    /\ call_args \in [ct : TextsSent,
                      role : {"assistant", "user"},
                      parts : FetchedPartLists]
    /\ call_result = << >>

\* GET /session/<id>/message answers 200 with one message of this prompt
FetchedAnswer ==
    [status |-> 200,
     messages |-> << [info |-> [role |-> call_args.role, id |-> "M1",
                                parentID |-> OurUserMsg],
                      parts |-> call_args.parts] >>]

FetchFirst ==
    /\ call_pc = "called"
    /\ call_pc' = "fetched"
    /\ call_result' = << FetchFinalMessageState(call_args.ct, OurSession, FetchedAnswer,
                                                OurUserMsg, {}, "cp1") >>
    /\ UNCHANGED <<call_args, psVars, sharedVars, idVars, linkVars, timerVars, supVars>>

FetchAgain ==
    /\ call_pc = "fetched"
    /\ call_pc' = "returned"
    /\ call_result' = Append(call_result,
                             FetchFinalMessageState(call_result[1].ct, OurSession,
                                                    FetchedAnswer, OurUserMsg, {}, "cp1"))
    /\ UNCHANGED <<call_args, psVars, sharedVars, idVars, linkVars, timerVars, supVars>>

FetchNext == FetchFirst \/ FetchAgain

FetchSpecInit == FetchInit /\ PromptIdle /\ SharedIdle /\ IdIdle /\ LinkIdle /\ TimerIdle /\ SupIdle

FetchSpec == FetchSpecInit /\ [][FetchNext]_vars

(***************************************************************************)
(* SessionsSpec: the locals of two prompt sessions of one bridge           *)
(*                                                                         *)
(* Every call of _stream_opencode_response_sse creates its own             *)
(* cumulative_text, emitted_tool_states, allowed_assistant_msg_ids and     *)
(* pending_parts.  Two prompts, one after the other or overlapping, read   *)
(* the events of the same agent session, each on its own SSE connection.   *)
(* call_pc[p] is the position of prompt p, call_args[p] its locals and     *)
(* call_result[p] the events it yields.                                    *)
(***************************************************************************)
MaxSessionEvents == 3               \* SSE events one prompt reads

Prompts == {"cp1", "cp2"}           \* control-plane message ids

\* opencode_message_id of each prompt
UserMsgOf == [cp1 |-> "msg_u1", cp2 |-> "msg_u2"]

\* the assistant messages of the agent session: (id, parentID)
SessionReplies == {<<"M1", "msg_u1">>, <<"M2", "msg_u2">>}

\* the part updates of an assistant message m: (part, delta)
SessionParts(m) ==
    { <<TextPart("p1", m, OurSession, ""), "ab">>,
      <<ToolPart("c1", "completed", SomeInput, m, OurSession), Null>> }

\* the locals as the session creates them (history: the parts handled so
\* far, the number of events read, the events of the final-state fetch with
\* the terminal event, and the prompt whose end made the agent send the
\* idle event that ended this one)
NewLocals ==
    [cumulative_text |-> EmptyDict, emitted_tool_states |-> {},
     allowed_assistant_msg_ids |-> {}, pending_parts |-> EmptyDict,
     pending_parts_total |-> 0, pending_drop_logged |-> FALSE,
     handled |-> <<>>, n |-> 0, final |-> <<>>, ended_by |-> ""]

\* GET /session/<id>/message when a prompt ends: the replies of the session
SessionMessages ==
    [status |-> 200,
     messages |-> << FetchedMessage("assistant", "M1", "msg_u1", "p1", "ab"),
                     FetchedMessage("assistant", "M2", "msg_u2", "p1", "ab") >>]

SessionsInit ==
    /\ call_pc = [p \in Prompts |-> "idle"]
    /\ call_args = [p \in Prompts |-> NewLocals]
    /\ call_result = [p \in Prompts |-> <<>>]

SessionsFrame ==
    UNCHANGED <<psVars, sharedVars, idVars, linkVars, timerVars, supVars>>

\* faulty variant: the text and the tool states are kept on the bridge, so a
\* prompt starts with what the other prompt left
SessionOpen_SharedLocals(p) ==
    /\ call_pc[p] = "idle"
    /\ call_pc' = [call_pc EXCEPT ![p] = "streaming"]
    /\ \E q \in Prompts \ {p} :
         call_args' = [call_args EXCEPT ![p] =
                          [NewLocals EXCEPT
                              !.cumulative_text = call_args[q].cumulative_text,
                              !.emitted_tool_states = call_args[q].emitted_tool_states]]
    /\ UNCHANGED call_result
    /\ SessionsFrame

\* _stream_opencode_response_sse up to the start of the stream
SessionOpen(p) ==
    /\ call_pc[p] = "idle"
    /\ call_pc' = [call_pc EXCEPT ![p] = "streaming"]
    /\ call_args' = [call_args EXCEPT ![p] = NewLocals]
    /\ UNCHANGED call_result
    /\ SessionsFrame

SessionReading(p) ==
    /\ call_pc[p] = "streaming"
    /\ call_args[p].n < MaxSessionEvents

\* message.updated of an assistant message read by prompt p
SessionMessage(p) ==
    /\ SessionReading(p)
    /\ \E r \in SessionReplies :
         LET l == call_args[p]
             oc_msg_id == r[1]
             pending == Get(l.pending_parts, oc_msg_id, <<>>)
             fl == FlushPending(l.cumulative_text, l.emitted_tool_states, pending,
                                p, l.n + 1)
         IN  IF r[2] = UserMsgOf[p]
             THEN /\ call_args' = [call_args EXCEPT ![p] =
                        [l EXCEPT
                            !.allowed_assistant_msg_ids = @ \cup {oc_msg_id},
                            !.pending_parts = DictPop(@, oc_msg_id),
                            !.pending_parts_total = @ - Len(pending),
                            !.cumulative_text = fl.ct,
                            !.emitted_tool_states = fl.ets,
                            !.handled = @ \o [i \in 1..Len(pending) |->
                                                <<pending[i].part, pending[i].delta>>],
                            !.n = @ + 1]]
                  /\ call_result' = [call_result EXCEPT ![p] = @ \o fl.events]
             ELSE /\ call_args' = [call_args EXCEPT ![p].n = @ + 1]
                  /\ UNCHANGED call_result
    /\ UNCHANGED call_pc
    /\ SessionsFrame

\* message.part.updated read by prompt p
SessionPart(p) ==
    /\ SessionReading(p)
    /\ \E r \in SessionReplies : \E u \in SessionParts(r[1]) :
         LET l == call_args[p]
             part == u[1]
             delta == u[2]
             oc_msg_id == Get(part, "messageID", "")
             h == HandlePart(l.cumulative_text, l.emitted_tool_states, part, delta, p)
             b == BufferPart(l.pending_parts, l.pending_parts_total,
                             l.pending_drop_logged, oc_msg_id, part, delta, l.n + 1)
         IN  IF oc_msg_id \in l.allowed_assistant_msg_ids
             THEN /\ call_args' = [call_args EXCEPT ![p] =
                        [l EXCEPT !.cumulative_text = h.ct,
                                  !.emitted_tool_states = h.ets,
                                  !.handled = Append(@, u),
                                  !.n = @ + 1]]
                  /\ call_result' = [call_result EXCEPT ![p] = @ \o h.events]
             ELSE /\ call_args' = [call_args EXCEPT ![p] =
                        [l EXCEPT !.pending_parts = b.pp,
                                  !.pending_parts_total = b.total,
                                  !.pending_drop_logged = b.logged,
                                  !.n = @ + 1]]
                  /\ UNCHANGED call_result
    /\ UNCHANGED call_pc
    /\ SessionsFrame

\* session.idle, or session.status of type idle, of the agent session read
\* by prompt p, sent by the agent when the reply to prompt q was complete:
\* the final-state fetch, the generator returns, and _handle_prompt sends
\* execution_complete{success:true}
SessionIdle(p) ==
    /\ call_pc[p] = "streaming"
    /\ \E q \in { r \in Prompts : call_pc[r] # "idle" } :
         LET l == call_args[p]
             f == FetchFinalMessageState(l.cumulative_text, OurSession,
                                         SessionMessages, UserMsgOf[p],
                                         l.allowed_assistant_msg_ids, p)
         IN  call_args' = [call_args EXCEPT ![p] =
                [l EXCEPT !.cumulative_text = f.ct,
                          !.final = f.events \o << ExecutionComplete(p, TRUE, "") >>,
                          !.ended_by = q]]
    /\ call_pc' = [call_pc EXCEPT ![p] = "done"]
    /\ UNCHANGED call_result
    /\ SessionsFrame

SessionsNext ==
    \E p \in Prompts :
        \/ SessionOpen(p)
        \/ SessionMessage(p)
        \/ SessionPart(p)
        \/ SessionIdle(p)

SessionsSpecInit ==
    SessionsInit /\ PromptIdle /\ SharedIdle /\ IdIdle /\ LinkIdle /\ TimerIdle /\ SupIdle

SessionsSpec == SessionsSpecInit /\ [][SessionsNext]_vars

(***************************************************************************)
(* Properties of the final-state fetch and of the timeouts (Spec)          *)
(***************************************************************************)
FetchIndices == { i \in 1..Len(sent) : sentMeta[i].origin = "fetch" }

\* C11: every token of the final-state fetch is taken from an assistant
\* message whose parentID is this prompt's agent-side message id or whose id
\* is in allowed_assistant_msg_ids; user messages and assistant messages of
\* earlier prompts in the list yield no event.
C11_FetchOnlyOwnMessages ==
    \A i \in FetchIndices :
        /\ sentMeta[i].role = "assistant"
        /\ \/ sentMeta[i].parent = opencode_message_id
           \/ sentMeta[i].msg \in allowed_assistant_msg_ids

\* the fetched list held an assistant message of an earlier prompt, a user
\* message and this prompt's answer (recognisable by its text); only the
\* answer became a token
C11_Witness ==
    /\ pc = "done"
    /\ \E i \in FetchIndices : sent[i].content = "abcde" /\ sentMeta[i].msg = "M1"
    /\ \A i \in 1..Len(sent) :
         sent[i].type = "token" => sent[i].content \notin {"old answer", "question"}

TokensOfPart(part_id) ==
    { i \in 1..Len(sent) : sent[i].type = "token" /\ sentMeta[i].part = part_id }

PreviouslySent(part_id) ==
    IF part_id \in DOMAIN cumulative_text THEN cumulative_text[part_id] ELSE ""

\* the step on which a prompt ends on the inactivity timeout
InactivityStep ==
    (termination = "" /\ termination' = "inactivity") =>
        LET k == Len(http')
            n == Len(sent')
        IN  /\ k >= 2
            /\ http'[k - 1] = Request("POST stop", Len(sent))
            /\ http'[k] = Request("GET message", Len(sent))
            /\ n > Len(sent)
            /\ SubSeq(sent', 1, Len(sent)) = sent
            /\ \A i \in (Len(sent) + 1)..(n - 1) :
                 /\ sent'[i].type = "token"
                 /\ sentMeta'[i].origin = "fetch"
                 /\ Len(sent'[i].content) > Len(PreviouslySent(sentMeta'[i].part))
            /\ sent'[n].type = "execution_complete"
            /\ sent'[n].success = FALSE
            /\ sent'[n].error = "SSE stream inactive"
            /\ \A i \in 1..(n - 1) : sent'[i].type # "execution_complete"

\* C12: when the inactivity window expires the prompt requests the agent to
\* stop, then fetches the final state and emits the texts longer than what
\* it had recorded, then fails with the inactivity error, sent as
\* execution_complete{success: false}; no execution_complete{success: true}
\* is emitted.
C12_InactivityRecovery == [][InactivityStep]_vars

\* the timeout struck after a token had been streamed, and the fetch
\* delivered a longer text of the same part
C12_Witness ==
    /\ termination = "inactivity"
    /\ \E i \in FetchIndices :
         \E j \in TokensOfPart(sentMeta[i].part) : j < i /\ sentMeta[j].origin = "sse"

(***************************************************************************)
(* Properties of the deadlines (TimerSpec)                                 *)
(***************************************************************************)
\* C13: every chunk read moves the inactivity deadline a whole window
\* ahead, so a prompt whose chunks were each less than the window apart,
\* and which is below the absolute limit, fails with the inactivity error
\* only when the deadline expired while it waited for the stream: for its
\* opening or for the next chunk.
C13_SteadyChunksNeverInactive ==
    ( /\ t_outcome = "inactivity"
      /\ max_gap < sse_inactivity_timeout
      /\ clock <= prompt_start + PROMPT_MAX_DURATION )
    => expired_in \in {"connect", "post", "read"}

\* C14: no prompt ends successfully on a session.idle that was read after
\* the absolute deadline, PROMPT_MAX_DURATION seconds after the start of
\* the prompt POST.
C14_NoSuccessAfterMaxDuration ==
    t_outcome = "idle" => last_chunk <= prompt_start + PROMPT_MAX_DURATION

(***************************************************************************)
(* Properties of the reconnection and of the commands (LinkSpec)           *)
(***************************************************************************)
\* the last connection cycle whose handshake succeeded (0: none yet)
LastEstablished ==
    LET ready == { sentMeta[i].conn : i \in { j \in 1..Len(sent) : sent[j].type = "ready" } }
    IN  IF ready = {} THEN 0 ELSE CHOOSE c \in ready : \A d \in ready : d <= c

\* connection cycles since the last successful connect, that one included
CyclesSinceEstablished ==
    IF LastEstablished = 0 THEN connects ELSE connects - LastEstablished + 1

\* C15: while run() sleeps before reconnecting, the delay is
\* min(2^attempt, 60) seconds, attempt being the number of connection
\* cycles since the last successfully established connection, however that
\* connection ended.
C15_BackoffSinceLastConnect ==
    run_pc = "sleep" =>
        /\ reconnect_attempts = CyclesSinceEstablished
        /\ Delay(reconnect_attempts) = Delay(CyclesSinceEstablished)

\* a step of run() after a rejected handshake, and any step after run()
\* has returned
RejectionStep ==
    /\ (connects' = connects + 1 /\ connect_outcome' \in FatalStatuses) =>
           /\ shutdown_event'
           /\ run_pc' = "exit"
           /\ reconnect_attempts' = reconnect_attempts
    /\ run_pc = "exit" => (run_pc' = "exit" /\ connects' = connects)

\* C16: a handshake rejected with HTTP 401, 403, 404 or 410 sets the
\* shutdown flag and makes run() return, without a backoff sleep and
\* without another connection attempt.
C16_RejectionEndsRun == [][RejectionStep]_vars

\* the second handshake was rejected, after a first failure and its sleep
C16_Witness ==
    /\ connect_outcome \in FatalStatuses
    /\ connects = 2
    /\ run_pc = "exit"

\* C17: once a shutdown command has been processed on an open link, run()
\* eventually returns, whether or not another message arrives or the link
\* is closed.
C17_ShutdownEndsRun == (shutdown_event /\ ws = "open") ~> (run_pc = "exit")

\* every running prompt task is in the in-flight set of its connection
RunningInFlight ==
    \A t \in DOMAIN tasks : tasks[t].pc \in Running => t \in background_tasks

\* the read loop dispatches a command: the running prompt tasks are left as
\* they are, in the in-flight set, and the loop goes on reading
DispatchStep ==
    (commands' = commands + 1 /\ ~shutdown_event) =>
        /\ run_pc' = "serve"
        /\ \A t \in DOMAIN tasks :
             tasks[t].pc \in Running =>
                 /\ tasks'[t] = tasks[t]
                 /\ t \in background_tasks'

\* C18: while a prompt task is in flight the read loop goes on dispatching
\* commands: a command read during a running prompt is handled at once,
\* without ending or changing the prompt task, which stays in the
\* in-flight set until it finishes.
C18_ReadLoopResponsive == []RunningInFlight /\ [][DispatchStep]_vars

\* the first prompt is still streaming after it sent a token, and since
\* then a snapshot was answered and a second prompt was started
C18_Witness ==
    /\ Len(tasks) = 2
    /\ tasks[1].pc = "stream"
    /\ tasks[2].pc \in Running
    /\ {1, 2} \subseteq background_tasks
    /\ \E i \in 1..Len(sent), j \in 1..Len(sent) :
         /\ i < j
         /\ sent[i].type = "token"
         /\ sentMeta[i].task = 1
         /\ sent[j].type = "snapshot_ready"

\* C19: whatever the interleaving of the prompt tasks, at most one agent
\* session is created (and so the session file, written by each creation,
\* is written at most once).
C19_OneAgentSession == sessions_created <= 1

(***************************************************************************)
(* Properties of the supervisor (SupSpec)                                  *)
(***************************************************************************)
CrashCount(child) ==
    IF child = "opencode" THEN restart_count ELSE bridge_restart_count

GaveUp(child) ==
    \E i \in 1..Len(fatal) : fatal[i].child = child /\ fatal[i].count > MAX_RESTARTS

ExpectedDelay(n) == <<2, 4, 8, 16, 32>>[n]

\* the restarts of each child follow its own crashes
RestartsBackOff ==
    \A child \in Children :
        /\ Len(delays[child]) = IF CrashCount(child) > MAX_RESTARTS
                                THEN MAX_RESTARTS ELSE CrashCount(child)
        /\ \A n \in 1..Len(delays[child]) : delays[child][n] = ExpectedDelay(n)
        /\ starts[child] <= Len(delays[child])
        /\ starts[child] >= Len(delays[child]) - 1
        /\ CrashCount(child) > MAX_RESTARTS =>
               /\ GaveUp(child)
               /\ sup_shutdown_event
               /\ monitor_pc \in RunLeft

\* once the loop has been left nothing is restarted
NoRestartAfterExit ==
    monitor_pc \in RunLeft =>
        (monitor_pc' \in RunLeft /\ starts' = starts /\ delays' = delays)

\* C20: each child, counted on its own, is restarted after its n-th crash
\* with a delay of min(2^n, 60) seconds, for n = 1..5; at the crash after
\* the fifth restart the supervisor reports a fatal error, sets the
\* shutdown flag and restarts nothing more.
C20_RestartBackoff == []RestartsBackOff /\ [][NoRestartAfterExit]_vars

\* the agent server was restarted five times and crashed again, after the
\* bridge had been restarted too
C20_Witness ==
    /\ restart_count = MAX_RESTARTS + 1
    /\ starts["opencode"] = MAX_RESTARTS
    /\ delays["opencode"] = <<2, 4, 8, 16, 32>>
    /\ starts["bridge"] >= 1
    /\ GaveUp("opencode")

\* what the supervisor does about an exit of the bridge
BridgeExitStep ==
    /\ (monitor_pc = "check_bridge" /\ bridge_process = "exited_0"
            /\ monitor_pc' # monitor_pc) =>
           /\ sup_shutdown_event'
           /\ monitor_pc' = "exit"
           /\ bridge_restart_count' = bridge_restart_count
           /\ fatal' = fatal
           /\ starts' = starts
           /\ delays' = delays
    /\ bridge_process = "exited_0" => bridge_process' = "exited_0"
    /\ bridge_restart_count' # bridge_restart_count => bridge_process = "exited_1"
    /\ starts'["bridge"] # starts["bridge"] => bridge_process = "exited_1"

\* C21: a bridge that exited with code 0 is never restarted, is not counted
\* as a crash and causes no fatal report: the supervisor sets its shutdown
\* flag and leaves the loop; only an exit with another code is counted and
\* followed by a restart.
C21_CleanExitNotRestarted ==
    /\ [](bridge_process = "exited_0" => ~GaveUp("bridge"))
    /\ [][BridgeExitStep]_vars

\* a restarted bridge exited with code 0 and the loop was left for it
C21_Witness ==
    /\ bridge_process = "exited_0"
    /\ starts["bridge"] >= 1
    /\ monitor_pc = "exit"
    /\ sup_shutdown_event
    /\ fatal = <<>>

\* the order of the starts: the agent server after the Git preparation and,
\* on a fresh start, the setup script; the bridge after the health check of
\* the latest agent server process has returned
StartOrderStep ==
    /\ Launched("opencode")' > Launched("opencode") =>
           /\ "git" \in done
           /\ SetupWanted => "setup" \in done
    /\ Launched("bridge")' > Launched("bridge") =>
           /\ opencode_ready
           /\ healthy >= 1
           /\ healthy = Launched("opencode")

\* the first health check failed: no bridge, a fatal report, the end of run()
UnhealthyAgentEndsRun ==
    (Launched("opencode") >= 1 /\ healthy = 0 /\ monitor_pc \notin {"startup_health"}) =>
        /\ monitor_pc \in RunLeft
        /\ Launched("bridge") = 0
        /\ bridge_process = "none"
        /\ \E i \in 1..Len(fatal) : fatal[i].child = "opencode"

\* C22: the bridge is started, and restarted, only after the agent server
\* answered its health check, and the agent server only after the Git
\* preparation and the setup script (where one is run) have finished; when
\* the health check of the first agent server gives up, the bridge is never
\* started, a fatal error is reported and run() ends.
C22_StartupOrder ==
    /\ []UnhealthyAgentEndsRun
    /\ [][StartOrderStep]_vars
    /\ [][NoRestartAfterExit /\ (monitor_pc \in RunLeft => done' = done)]_vars

\* the bridge was restarted after a restart of the agent server
C22_Witness ==
    /\ starts["bridge"] >= 1
    /\ starts["opencode"] >= 1
    /\ healthy = 2
    /\ done = {"git", "full_sync", "setup", "opencode", "bridge"}

\* the first health check gave up
C22_WitnessUnhealthy ==
    /\ healthy = 0
    /\ "opencode" \in done
    /\ monitor_pc = "exit"

(***************************************************************************)
(* Properties of the push command (PushSpec)                               *)
(***************************************************************************)
\* what the command and the environment give for the push, read off the inputs
PushToken == IF call_args.cmd.githubToken # "" THEN call_args.cmd.githubToken
             ELSE call_args.env.GITHUB_APP_TOKEN
PushOwner == IF call_args.cmd.repoOwner # "" THEN call_args.cmd.repoOwner
             ELSE call_args.env.REPO_OWNER
PushName  == IF call_args.cmd.repoName # "" THEN call_args.cmd.repoName
             ELSE call_args.env.REPO_NAME

PushCanSucceed ==
    /\ PushToken # "" /\ PushOwner # "" /\ PushName # ""
    /\ call_args.repo_found
    /\ call_args.git_push = "exit_0"

\* C23: a push command emits exactly one event.  It is push_complete with the
\* command's branchName exactly when a token (the command's, else the
\* environment's), a repository owner and a repository name are present, a
\* repository is found and git push exits 0, and git push was then run with
\* that token; in every other case (a missing token, owner or name, no
\* repository, a non-zero exit, an exception) it is push_error.
C23_PushOneEvent ==
    call_pc = "returned" =>
        /\ Len(call_result.events) = 1
        /\ call_result.events[1].type \in {"push_complete", "push_error"}
        /\ (call_result.events[1].type = "push_complete") <=> PushCanSucceed
        /\ call_result.events[1].type = "push_complete" =>
              /\ call_result.events[1].branchName = call_args.cmd.branchName
              /\ call_result.push_url = << PushToken, PushOwner, PushName >>
        /\ (PushToken = "" \/ PushOwner = "" \/ PushName = "" \/ ~call_args.repo_found)
              => call_result.push_url = << >>

\* a push that succeeds with the token of the environment, the command
\* carrying none
C23_Witness ==
    /\ call_pc = "returned"
    /\ call_args.cmd.githubToken = ""
    /\ call_args.env.GITHUB_APP_TOKEN # ""
    /\ call_result.events[1].type = "push_complete"

\* a push that fails on a non-zero exit of git push
C23_WitnessError ==
    /\ call_pc = "returned"
    /\ call_args.git_push = "exit_nonzero"
    /\ call_result.push_url # << >>
    /\ call_result.events[1].type = "push_error"

(***************************************************************************)
(* Properties of the Git identity (IdentitySpec)                           *)
(***************************************************************************)
\* the fixed no-reply identity the specification substitutes
NoReplyUser == [name |-> "no-reply name", email |-> "no-reply email"]

\* the identity the specification asks for, field by field
ExpectedUser ==
    [name  |-> IF Truthy(call_args.author.githubName)
               THEN call_args.author.githubName ELSE NoReplyUser.name,
     email |-> IF Truthy(call_args.author.githubEmail)
               THEN call_args.author.githubEmail ELSE NoReplyUser.email]

\* C24: before every prompt the Git identity is configured from the
\* command's author: the author's name and email where they are non-empty,
\* and the fixed no-reply identity for exactly the missing field (name only,
\* email only, or both, an author without identity fields included).
C24_IdentityConfigured ==
    call_pc = "returned" =>
        /\ call_result.user = << ExpectedUser >>
        /\ (call_args.repo_found /\ call_args.git_config = "ok")
              => call_result.config = ExpectedUser

\* the part of C24 the code keeps: an author with both fields is configured
\* with them
C24_BothPresentConfigured ==
    (call_pc = "returned" /\ Truthy(call_args.author.githubName)
                          /\ Truthy(call_args.author.githubEmail)) =>
        /\ call_result.user = << [name  |-> call_args.author.githubName,
                                  email |-> call_args.author.githubEmail] >>
        /\ (call_args.repo_found /\ call_args.git_config = "ok")
              => call_result.config = call_result.user[1]

(***************************************************************************)
(* Properties of sending (SendSpec)                                        *)
(***************************************************************************)
\* C25: send(event) never raises to its caller.  With the link absent or
\* not OPEN nothing is written and the event is left as it was; a write that
\* fails is logged and swallowed; a frame that is written carries the
\* sandboxId, a timestamp (the one the event had, else the current time) and
\* every other field of the event unchanged.
C25_SendNeverRaises ==
    call_pc = "returned" =>
        /\ ~call_result.raised
        /\ call_args.ws_state # "OPEN" =>
              /\ call_result.written = << >>
              /\ call_result.event = call_args.event
        /\ (call_args.ws_state = "OPEN" /\ call_args.write = "raises") =>
              /\ call_result.written = << >>
              /\ call_result.log = << "error:bridge.send_error" >>
        /\ (call_args.ws_state = "OPEN" /\ call_args.write = "ok") =>
              /\ Len(call_result.written) = 1
              /\ call_result.written[1].sandboxId = SandboxId
              /\ call_result.written[1].timestamp =
                    (IF "timestamp" \in DOMAIN call_args.event
                     THEN call_args.event.timestamp ELSE call_args.now)
              /\ \A k \in DOMAIN call_args.event \ {"sandboxId", "timestamp"} :
                    call_result.written[1][k] = call_args.event[k]

\* a write on an open link of an event that had a timestamp already
C25_Witness ==
    /\ call_pc = "returned"
    /\ call_args.ws_state = "OPEN"
    /\ "timestamp" \in DOMAIN call_args.event
    /\ Len(call_result.written) = 1
    /\ call_result.written[1].timestamp = EarlierTimestamp

\* a failed write on an open link
C25_WitnessWriteFails ==
    /\ call_pc = "returned"
    /\ call_args.ws_state = "OPEN"
    /\ call_args.write = "raises"
    /\ call_result.written = << >>

(***************************************************************************)
(* Properties of a failed opening of the stream (Spec)                     *)
(***************************************************************************)
OpenFailed == termination \in {"sse_open_failed", "post_failed"}

\* C26: when the SSE open answers a status other than 200, or the
\* prompt_async POST a status other than 200 or 204, the prompt translates no
\* SSE event and ends with an error event followed by
\* execution_complete{success:false}, both carrying the control-plane
\* messageId.
C26_OpenFailureErrorPair ==
    (OpenFailed /\ ws = "open") =>
        /\ \A i \in 1..Len(sent) : sentMeta[i].origin = "terminal" \/ sent[i].type = "error"
        /\ Len(sent) >= 2
        /\ sent[Len(sent) - 1].type = "error"
        /\ sent[Len(sent) - 1].messageId = message_id
        /\ sent[Len(sent)].type = "execution_complete"
        /\ sent[Len(sent)].messageId = message_id
        /\ ~sent[Len(sent)].success

\* the part of C26 the code keeps: the prompt translates no SSE event and
\* ends with execution_complete{success:false} carrying the messageId and the
\* failed status, and 204 is accepted from the POST only
C26_OpenFailureEndsPrompt ==
    (OpenFailed /\ ws = "open") =>
        /\ Len(sent) = 1
        /\ sent[1].type = "execution_complete"
        /\ sent[1].messageId = message_id
        /\ ~sent[1].success
        /\ sent[1].error \in {"SSE connection failed: 204", "SSE connection failed: 500",
                              "Async prompt failed: 500"}

(***************************************************************************)
(* Properties of the connections (LinkSpec)                                *)
(***************************************************************************)
\* the events written on connection c, by their place on the link
WrittenOn(c) == { i \in 1..Len(sent) : sentMeta[i].conn = c }

\* a step that establishes a connection writes the ready event, with the
\* agent session id the bridge holds at that moment
EstablishStep ==
    (ws # "open" /\ ws' = "open") =>
        /\ Len(sent') = Len(sent) + 1
        /\ sent'[Len(sent')].type = "ready"
        /\ sent'[Len(sent')].sandboxId = SANDBOX_ID
        /\ sent'[Len(sent')].opencodeSessionId = opencode_session_id
        /\ sentMeta'[Len(sent')].conn = connects'

\* C27: on every established connection (the first and each reconnect) the
\* bridge writes one ready event carrying the current agent session id, and
\* it is the first event of that connection, before any heartbeat and before
\* any event of a prompt.
C27_ReadyFirst ==
    /\ [](\A c \in 1..connects :
            /\ (c = connects /\ run_pc = "serve") => WrittenOn(c) # {}
            /\ WrittenOn(c) # {} =>
                 /\ Cardinality({ i \in WrittenOn(c) : sent[i].type = "ready" }) = 1
                 /\ \A i \in WrittenOn(c) :
                      (\A j \in WrittenOn(c) : i <= j) =>
                          /\ sent[i].type = "ready"
                          /\ sentMeta[i].task = 0)
    /\ [][EstablishStep]_vars

\* a reconnect after a prompt created the agent session: the second ready
\* carries the new session id, and events follow it on that connection
C27_Witness ==
    /\ connects = 2
    /\ \E i \in WrittenOn(2) :
          /\ sent[i].type = "ready"
          /\ sent[i].opencodeSessionId = CreatedSession(1)
    /\ Cardinality(WrittenOn(2)) >= 2

\* a step that ends a connection: the read loop is left
ConnectionEndStep ==
    (run_pc = "serve" /\ run_pc' # "serve") =>
        /\ heartbeat_task' # "sleeping"
        /\ \A t \in background_tasks : tasks'[t].pc \notin Running
        /\ \A t \in DOMAIN tasks :
              (tasks[t].pc \in Running /\ tasks[t].conn = connects) =>
                  t \in background_tasks

\* C28: when a connection ends (link closed, read-loop error, loop exit on
\* the shutdown flag) the heartbeat task and every prompt task in flight on it
\* are cancelled; no task started on an ended connection keeps running, and
\* none writes an event on a later connection.
C28_TasksEndWithConnection ==
    /\ [][ConnectionEndStep]_vars
    /\ [](\A t \in DOMAIN tasks :
            (tasks[t].conn < connects \/ run_pc # "serve") =>
                tasks[t].pc \notin Running)
    /\ [](run_pc # "serve" => heartbeat_task # "sleeping")
    /\ [](\A i \in 1..Len(sent) :
            sentMeta[i].task # 0 => sentMeta[i].conn = tasks[sentMeta[i].task].conn)

\* a prompt in flight when its connection ended, cancelled, with a later
\* connection established
C28_Witness ==
    /\ connects = 2
    /\ ws = "open"
    /\ \E t \in DOMAIN tasks : tasks[t].conn = 1 /\ tasks[t].pc = "cancelled"
    /\ heartbeat_task = "sleeping"

(***************************************************************************)
(* Properties of the inactivity window (TimeoutSpec)                       *)
(***************************************************************************)
\* the raw value denotes a number inside [5, 3600] seconds
ConfiguredInRange ==
    /\ call_args.raw.kind = "decimal"
    /\ call_args.raw.ms >= SSE_INACTIVITY_TIMEOUT_MIN * Millis
    /\ call_args.raw.ms <= SSE_INACTIVITY_TIMEOUT_MAX * Millis

\* C29: the resolved SSE inactivity timeout is always within [5, 3600]
\* seconds: the configured value when it is a number inside the range, and
\* the default 120 s when the variable is unset, empty, not a number, or
\* outside the range.
C29_TimeoutResolved ==
    call_pc = "returned" =>
        /\ ~call_result.raised
        /\ call_result.ms >= SSE_INACTIVITY_TIMEOUT_MIN * Millis
        /\ call_result.ms <= SSE_INACTIVITY_TIMEOUT_MAX * Millis
        /\ call_result.ms = IF ConfiguredInRange THEN call_args.raw.ms
                            ELSE SSE_INACTIVITY_TIMEOUT * Millis

\* what the code does instead: a value that is returned is within the range;
\* a number outside the range, the infinities included, gives the nearer
\* bound, not the default; nan makes the call raise
C29_TimeoutClamped ==
    call_pc = "returned" =>
        /\ call_result.raised <=> call_args.raw.kind = "nan"
        /\ ~call_result.raised =>
              /\ call_result.ms >= SSE_INACTIVITY_TIMEOUT_MIN * Millis
              /\ call_result.ms <= SSE_INACTIVITY_TIMEOUT_MAX * Millis
              /\ ConfiguredInRange => call_result.ms = call_args.raw.ms
              /\ call_args.raw.kind \in {"unset", "empty", "text"} =>
                    call_result.ms = SSE_INACTIVITY_TIMEOUT * Millis
              /\ (call_args.raw.kind = "-inf" \/
                  (call_args.raw.kind = "decimal" /\
                   call_args.raw.ms < SSE_INACTIVITY_TIMEOUT_MIN * Millis)) =>
                    call_result.ms = SSE_INACTIVITY_TIMEOUT_MIN * Millis
              /\ (call_args.raw.kind = "inf" \/
                  (call_args.raw.kind = "decimal" /\
                   call_args.raw.ms > SSE_INACTIVITY_TIMEOUT_MAX * Millis)) =>
                    call_result.ms = SSE_INACTIVITY_TIMEOUT_MAX * Millis

(***************************************************************************)
(* Properties of the admission of assistant messages (Spec)                *)
(***************************************************************************)
\* messages that have parts buffered
BufferedMessages == { m \in DOMAIN pending_parts : pending_parts[m] # <<>> }

\* C30: a message id is in allowed_assistant_msg_ids only if a
\* message.updated event of this prompt carried it with info.sessionID equal
\* to the agent session id, role assistant and parentID equal to the prompt's
\* agent-side message id; user messages and assistant messages with another
\* parentID are not admitted, and every event the SSE stream emits for a part
\* belongs to an admitted message.
C30_AdmissionOnlyForOwnReplies ==
    /\ DOMAIN admittedBy = allowed_assistant_msg_ids
    /\ \A m \in allowed_assistant_msg_ids :
          /\ admittedBy[m] # {}
          /\ \A info \in admittedBy[m] :
                /\ info.id = m
                /\ info.sessionID = opencode_session_id
                /\ info.role = "assistant"
                /\ info.parentID = opencode_message_id
    /\ \A i \in 1..Len(sent) :
          sentMeta[i].origin = "sse" => sentMeta[i].msg \in allowed_assistant_msg_ids
    /\ BufferedMessages \cap allowed_assistant_msg_ids = {}

\* one message admitted and its part emitted from the stream, while a part of
\* the other message, never admitted, stays buffered
C30_Witness ==
    /\ allowed_assistant_msg_ids = {"M1"}
    /\ \E i \in 1..Len(sent) : sentMeta[i].origin = "sse" /\ sentMeta[i].msg = "M1"
    /\ "M2" \in BufferedMessages
    /\ nEvents = MaxEvents

(***************************************************************************)
(* Properties of the final-state fetch run twice (FetchSpec)               *)
(***************************************************************************)
\* the text recorded for a part when token j of a run is emitted: the text
\* of the latest earlier token of the part in that run, else the text the
\* run started with
RecordedBefore(run, ct, j) ==
    LET earlier == { i \in 1..(j - 1) : run.pids[i] = run.pids[j] }
    IN  IF earlier = {} THEN Get(ct, run.pids[j], "")
        ELSE run.events[CHOOSE i \in earlier : \A k \in earlier : k <= i].content

\* one run of the fetch, started with the texts ct
FetchRunCorrect(run, ct) ==
    /\ Len(run.pids) = Len(run.events)
    \* a token only for a text strictly longer than what is recorded
    /\ \A j \in 1..Len(run.events) :
          /\ run.events[j].type = "token"
          /\ Len(run.events[j].content) > Len(RecordedBefore(run, ct, j))
          /\ \E n \in 1..Len(call_args.parts) :
                /\ call_args.parts[n].id = run.pids[j]
                /\ call_args.parts[n].text = run.events[j].content
    \* the fetched text is recorded as sent
    /\ \A p \in DOMAIN run.ct \cup DOMAIN ct :
          LET mine == { j \in 1..Len(run.events) : run.pids[j] = p }
          IN  Get(run.ct, p, "") =
                 IF mine = {} THEN Get(ct, p, "")
                 ELSE run.events[CHOOSE j \in mine : \A k \in mine : k <= j].content
    \* a text of equal or smaller length emits nothing, a longer one is not
    \* left out
    /\ \A n \in 1..Len(call_args.parts) :
          LET part == call_args.parts[n]
          IN  /\ Len(part.text) <= Len(Get(ct, part.id, "")) =>
                    ~ \E j \in 1..Len(run.events) :
                          run.pids[j] = part.id /\ run.events[j].content = part.text
              /\ call_args.role = "assistant" =>
                    Len(part.text) <= Len(Get(run.ct, part.id, ""))

\* C31: the final-state fetch emits a token for a text part only when the
\* fetched text is strictly longer than what is recorded as sent for its
\* part id, and then records the fetched text; a text of equal or smaller
\* length emits nothing, so a second fetch of the same message list emits
\* nothing.
C31_FetchOnlyLonger ==
    /\ call_pc \in {"fetched", "returned"} =>
          FetchRunCorrect(call_result[1], call_args.ct)
    /\ call_pc = "returned" =>
          /\ call_result[2].events = << >>
          /\ call_result[2].ct = call_result[1].ct

\* two parts with the same id, the second longer than the first and both
\* longer than what was sent: two tokens the first time, none the second
C31_Witness ==
    /\ call_pc = "returned"
    /\ call_args.ct # EmptyDict
    /\ Len(call_result[1].events) = 2
    /\ call_result[1].pids = << "p1", "p1" >>
    /\ call_result[2].events = << >>

(***************************************************************************)
(* Properties of the idle event (TimerSpec, Spec)                          *)
(***************************************************************************)
\* the idle event of the prompt's agent session was read from the stream
IdleObserved == t_pc = "fetch" \/ expired_in = "fetch" \/ t_outcome = "idle"

\* C32: a session.idle event, or a session.status event of type idle, of
\* the bridge's agent session ends the prompt's translation: the final-state
\* fetch runs and the prompt then ends with execution_complete{success:true}.
C32_IdleEndsWithSuccess ==
    (IdleObserved /\ t_pc = "done") => t_outcome = "idle"

\* the part of C32 that holds whatever the requests last (Spec): the prompt
\* ended by an idle event has fetched the final state last, has sent
\* execution_complete{success:true} as its last event, and the event that
\* ended it was not one of another session
C32_IdleEndsTranslation ==
    (termination = "idle" /\ ws = "open") =>
        /\ pc = "done"
        /\ ~last.foreign
        /\ http # << >> /\ http[Len(http)].op = "GET message"
        /\ sent # << >>
        /\ sent[Len(sent)] = Stamp(ExecutionComplete(message_id, TRUE, ""))
        /\ \A i \in 1..Len(sent) :
              sentMeta[i].origin = "fetch" =>
                  \A j \in (i + 1)..Len(sent) : sentMeta[j].origin \in {"fetch", "terminal"}

(***************************************************************************)
(* Properties of the locals of two prompt sessions (SessionsSpec)          *)
(***************************************************************************)
\* the parts of one type among the parts a prompt has handled
HandledOfType(p, ty) ==
    SelectSeq(call_args[p].handled, LAMBDA u : u[1].type = ty)

YieldedOfType(p, ty) ==
    SelectSeq(call_result[p], LAMBDA e : e.type = ty)

\* the deltas of the text part part_id among the first k text parts of h
RECURSIVE OwnText(_, _, _)
OwnText(h, k, part_id) ==
    IF k = 0 THEN ""
    ELSE OwnText(h, k - 1, part_id)
            \o (IF h[k][1].id = part_id THEN h[k][2] ELSE "")

\* the (callID, status) pairs of the tool parts a prompt has handled
OwnToolPairs(p) ==
    { <<u[1].callID, u[1].state.status>> :
        u \in { HandledOfType(p, "tool")[i] : i \in 1..Len(HandledOfType(p, "tool")) } }

\* C33: the locals of a prompt session start empty and belong to that
\* prompt alone, whether the prompts follow each other or overlap: the
\* tokens of a prompt hold the text of the parts that prompt handled and
\* nothing of another prompt, and a (callID, status) pair is emitted once in
\* every prompt that handles it, whatever the other prompt has emitted.
C33_LocalsPerPrompt ==
    \A p \in Prompts :
        LET l == call_args[p]
            texts == HandledOfType(p, "text")
            tokens == YieldedOfType(p, "token")
            calls == YieldedOfType(p, "tool_call")
        IN  /\ (call_pc[p] = "streaming" /\ l.n = 0) =>
                  /\ l.cumulative_text = EmptyDict
                  /\ l.emitted_tool_states = {}
                  /\ l.allowed_assistant_msg_ids = {}
                  /\ l.pending_parts = EmptyDict
            /\ Len(tokens) = Len(texts)
            /\ \A i \in 1..Len(tokens) :
                  tokens[i].content = OwnText(texts, i, texts[i][1].id)
            /\ \A pair \in OwnToolPairs(p) :
                  Cardinality({ i \in 1..Len(calls) :
                                  <<calls[i].callId, calls[i].status>> = pair }) = 1
            /\ \A i \in 1..Len(call_result[p]) : call_result[p][i].messageId = p

\* witness: both prompts have handled the text part p1 and the tool call
\* c1:completed, one of them after the other had emitted both
C33_Witness ==
    /\ call_pc["cp1"] = "done"
    /\ call_pc["cp2"] = "streaming"
    /\ \A p \in Prompts :
          /\ Len(YieldedOfType(p, "token")) = 1
          /\ YieldedOfType(p, "token")[1].content = "ab"
          /\ Len(YieldedOfType(p, "tool_call")) = 1

\* witness: the prompts overlap and one of them has buffered a part of the
\* other's reply
C33_WitnessOverlap ==
    /\ \A p \in Prompts : call_pc[p] = "streaming"
    /\ call_result["cp1"] # <<>>
    /\ call_args["cp2"].pending_parts_total > 0
    /\ "M1" \in DOMAIN call_args["cp2"].pending_parts

(***************************************************************************)
(* Properties of the startup modes (SupSpec)                               *)
(***************************************************************************)
\* the Git preparations run() has called, and the one its flags ask for
PreparationsRun == done \cap GitPreparations

PreparationAskedFor ==
    IF start_mode.restored_from_snapshot THEN "quick_fetch"
    ELSE IF start_mode.from_repo_image THEN "incremental_sync"
    ELSE "full_sync"

StartupModes ==
    /\ monitor_pc = "git_sync" => PreparationsRun = {}
    /\ monitor_pc # "git_sync" => PreparationsRun = {PreparationAskedFor}
    /\ "setup" \in done =>
          ~start_mode.restored_from_snapshot /\ ~start_mode.from_repo_image
    /\ image_build_mode =>
          /\ Launched("opencode") = 0 /\ opencode_process = "none"
          /\ Launched("bridge") = 0 /\ bridge_process = "none"
          /\ monitor_pc \in {"git_sync", "setup_script", "image_wait"} \cup RunLeft
          /\ (monitor_pc \in RunLeft /\ fatal = <<>>) => sup_shutdown_event

\* C34: for every combination of IMAGE_BUILD_MODE, RESTORED_FROM_SNAPSHOT and
\* FROM_REPO_IMAGE run() calls exactly one Git preparation (the quick fetch
\* when restored from a snapshot, else the incremental sync when started
\* from a repo image, else the full sync), runs the setup script only when
\* the start is from neither, and in image build mode starts neither the
\* agent server nor the bridge and returns only once shutdown is signalled.
C34_StartupModes ==
    /\ []StartupModes
    /\ [][PreparationsRun' # PreparationsRun => monitor_pc = "git_sync"]_vars
    /\ [][("setup" \in done' /\ "setup" \notin done) =>
             monitor_pc = "setup_script"]_vars

\* witness: an image build from a repo image with the snapshot flag set as
\* well has returned after the signal
C34_Witness ==
    /\ image_build_mode
    /\ start_mode.restored_from_snapshot /\ start_mode.from_repo_image
    /\ done = {"git", "quick_fetch"}
    /\ monitor_pc = "exit"
    /\ sup_shutdown_event

\* witness: a fresh image build has run the setup script and waits
C34_WitnessFresh ==
    /\ image_build_mode
    /\ done = {"git", "full_sync", "setup"}
    /\ monitor_pc = "image_wait"
    /\ ~sup_shutdown_event

(***************************************************************************)
(* Properties of the successful completion (Spec)                          *)
(***************************************************************************)
SuccessSent ==
    \E i \in 1..Len(sent) :
        sent[i].type = "execution_complete" /\ sent[i].success

\* the final-state fetch was run
FinalStateFetched ==
    \E i \in 1..Len(http) : http[i].op = "GET message"

\* C35: execution_complete{success:true} is emitted for a prompt only after
\* an idle event of the bridge's agent session was read from the prompt's
\* SSE stream and the final-state fetch was run: not when the stream merely
\* ends, and not after a session.error.
C35_SuccessOnlyAfterIdle ==
    SuccessSent => (termination = "idle" /\ FinalStateFetched)

\* the ways a prompt reports success: the idle event with its fetch, the end
\* of the SSE response, and a session.error of the agent session
C35_SuccessPaths ==
    SuccessSent =>
        /\ pc = "done"
        /\ termination \in {"idle", "stream_end", "session_error"}
        /\ termination = "idle" => FinalStateFetched

(***************************************************************************)
(* Properties of overlapping prompts (SessionsSpec)                        *)
(***************************************************************************)
EndedWithSuccess(p) ==
    /\ call_pc[p] = "done"
    /\ call_args[p].final # <<>>
    /\ call_args[p].final[Len(call_args[p].final)] = ExecutionComplete(p, TRUE, "")

\* C36: when two prompts overlap in one agent session, a prompt ends with
\* execution_complete{success:true} only on an idle event that follows the
\* completion of its own reply: the idle event the agent sends because the
\* other prompt finished does not end it.
C36_OwnIdleOnly ==
    \A p \in Prompts : EndedWithSuccess(p) => call_args[p].ended_by = p

\* every idle event of the agent session ends the prompt that reads it, and
\* the prompt reports success; the idle event follows a prompt that was sent
C36_AnyIdleEnds ==
    \A p \in Prompts :
        call_pc[p] = "done" =>
            /\ EndedWithSuccess(p)
            /\ call_args[p].ended_by \in Prompts

(***************************************************************************)
(* Properties of the shutdown flag (LinkSpec)                              *)
(***************************************************************************)
\* a step taken with the shutdown flag set
AfterShutdownStep ==
    shutdown_event =>
        /\ shutdown_event'
        /\ connects' = connects
        /\ run_pc' \in {"serve", "exit"}
        /\ run_pc = "exit" => run_pc' = "exit"
        /\ reconnect_attempts' <= reconnect_attempts
        /\ ws' = "open" => ws = "open"

\* C37: once the shutdown flag is set, by the shutdown command or by a fatal
\* rejection of the link, run() opens no connection and starts no backoff
\* sleep any more: when the connection at hand has ended it leaves its loop.
C37_NoReconnectAfterShutdown ==
    /\ [](shutdown_event => run_pc \in {"serve", "exit"})
    /\ [][AfterShutdownStep]_vars

\* witness: a shutdown command ended run() although a reconnection was left
C37_Witness ==
    /\ shutdown_event
    /\ run_pc = "exit"
    /\ connect_outcome = "ok"
    /\ connects < MaxConnects
    /\ ws = "none"

\* witness: a fatal rejection of the second connection ended run()
C37_WitnessRejected ==
    /\ shutdown_event
    /\ run_pc = "exit"
    /\ connect_outcome \in FatalStatuses
    /\ connects = 2

(***************************************************************************)
(* Properties of the end of run() (SupSpec)                                *)
(***************************************************************************)
\* the steps by which run() ends: from the try block to shutdown(), the
\* bridge first, then the agent server, then the return
ShutdownStep ==
    /\ (monitor_pc' = "returned" /\ monitor_pc # "returned") =>
           monitor_pc = "shutdown_opencode"
    /\ (monitor_pc' = "shutdown_opencode" /\ monitor_pc # "shutdown_opencode") =>
           monitor_pc = "exit"
    /\ monitor_pc = "exit" => monitor_pc' \in {"exit", "shutdown_opencode"}
    /\ monitor_pc = "returned" => UNCHANGED supVars
    /\ (opencode_process = "running" /\ opencode_process' # "running"
            /\ monitor_pc \in RunLeft) =>
           bridge_process \notin {"running"}

NoChildLeft ==
    /\ monitor_pc = "shutdown_opencode" => bridge_process # "running"
    /\ monitor_pc = "returned" =>
          /\ bridge_process # "running"
          /\ opencode_process # "running"

\* C38: every way out of run(), whether by the shutdown signal, the clean
\* exit of the bridge, the restart cap, a failed health check or an
\* exception of the startup, goes through shutdown(), which ends the bridge
\* before the agent server, and no child runs when run() has returned.
C38_ShutdownOnEveryPath ==
    /\ []NoChildLeft
    /\ [][ShutdownStep]_vars
    /\ (monitor_pc = "exit") ~> (monitor_pc = "returned")

\* witness: after a signal run() has returned, the bridge terminated and the
\* agent server killed
C38_Witness ==
    /\ monitor_pc = "returned"
    /\ sup_shutdown_event
    /\ fatal = <<>>
    /\ bridge_process = "terminated"
    /\ opencode_process = "killed"

\* witness: the health check of the first agent server gave up and the
\* agent server was terminated
C38_WitnessUnhealthy ==
    /\ monitor_pc = "returned"
    /\ healthy = 0
    /\ bridge_process = "none"
    /\ opencode_process = "terminated"

\* witness: the agent server crashed once more than MAX_RESTARTS times
C38_WitnessRestartCap ==
    /\ monitor_pc = "returned"
    /\ restart_count = MAX_RESTARTS + 1
    /\ bridge_process = "terminated"
    /\ opencode_process = "exited"

(***************************************************************************)
(* Properties of the buffer of parts (Spec)                                *)
(***************************************************************************)
\* the number of parts buffered for the message ids of a set
RECURSIVE BufferedCount(_)
BufferedCount(ids) ==
    IF ids = {} THEN 0
    ELSE LET m == CHOOSE x \in ids : TRUE
         IN  Len(pending_parts[m]) + BufferedCount(ids \ {m})

BufferConsistent ==
    /\ pending_parts_total = BufferedCount(DOMAIN pending_parts)
    /\ allowed_assistant_msg_ids \cap DOMAIN pending_parts = {}

\* an admission takes the whole list of the message out of the buffer and
\* counts it off; an admitted message stays admitted
AdmissionStep ==
    /\ allowed_assistant_msg_ids \subseteq allowed_assistant_msg_ids'
    /\ \A m \in allowed_assistant_msg_ids' \ allowed_assistant_msg_ids :
          /\ m \notin DOMAIN pending_parts'
          /\ \A k \in DOMAIN pending_parts \ {m} :
                k \in DOMAIN pending_parts' /\ pending_parts'[k] = pending_parts[k]
          /\ pending_parts_total' =
                pending_parts_total - Len(Get(pending_parts, m, <<>>))

\* C39: in every state of a prompt session pending_parts_total is the sum
\* of the lengths of the lists in pending_parts, and no message id is both
\* in allowed_assistant_msg_ids and a key of pending_parts: the admission
\* removes the whole list of the id and subtracts its length, and a part of
\* an admitted id is never buffered again.
C39_BufferConsistent == []BufferConsistent /\ [][AdmissionStep]_vars

\* witness: a message was admitted with a part buffered, which was flushed,
\* while a part of another message stays buffered
C39_Witness ==
    /\ allowed_assistant_msg_ids = {"M1"}
    /\ \E i \in 1..Len(sent) :
          /\ sentMeta[i].origin = "sse" /\ sentMeta[i].msg = "M1"
          /\ sentMeta[i].src < sentMeta[i].at
    /\ DOMAIN pending_parts = {"M2"}
    /\ pending_parts_total = 1

=============================================================================
